---- MODULE Spec2Model ----
(***************************************************************************)
(* A model of the vocaboost offline utilities:                             *)
(*   - regenerate_dataset.py : the example generator and the dataset       *)
(*     writer (temp file, rotating backup, replace);                       *)
(*   - training/train_*.py   : embedding lookup with fallbacks and the     *)
(*     top-10 similarity table.                                            *)
(* Python strings are TLA+ strings; the str methods the code uses are the  *)
(* operators of the first section, computed character by character.        *)
(***************************************************************************)
EXTENDS Integers, Sequences, FiniteSets, TLC

VARIABLES
    \* regenerate_dataset.main
    metadata_file,  \* the JSON metadata file: whether it exists, and its 'metadata' list
    fs,             \* the files under lib/vocdataset: path -> rows
    clock,          \* int(time.time())
    pc,             \* where each run of main is
    metadata,       \* main's metadata
    idx,            \* the entry the loop is at (1-based)
    csv_data,       \* main's csv_data
    temp_path,      \* main's temp_path
    error,          \* the exception that ended the run, "" when none
    runs,           \* how many runs each process has started
    fs_before,      \* the files as they were when the run started
    written,        \* the temp files written so far: the metadata read and the rows
    \* a call of generate_examples
    gen_args,       \* its arguments
    gen_result,     \* the three triples it returned
    gen_pc,         \* "ready" before the call, "returned" after, "categorised" at the end
    gen_category,   \* what determine_category returned for the same entry
    \* a run of a training script
    variant,        \* which of the four scripts runs
    csv_exists,     \* whether the dataset CSV is there
    train_error,    \* what ended the script early: a reported error or an exception
    tf_available,   \* whether `import tensorflow` succeeds
    drive_mountable,\* whether drive.mount succeeds
    df,             \* the dataframe read from the dataset CSV
    train_pc,       \* where the script's main is
    wv,             \* word2vec_model.wv: token -> trained vector
    embeddings,     \* generate_embeddings' dict: bisaya_lower -> vector
    embeddings_list,\* create_embedding_model's list of vectors
    word_to_index,  \* create_embedding_model's dict: bisaya_lower -> row index
    index_to_word,  \* create_embedding_model's dict: row index -> bisaya_lower
    similarity,     \* the similarity table: word -> (neighbour -> score)
    outputs,        \* the files under the output directory: name -> content
    drive_files,    \* the files copied to the Google Drive folder: name -> content
    \* update_examples_with_tagalog.py
    upd_file,       \* the text of regenerate_dataset.py
    upd_before,     \* its text before the first run
    upd_once,       \* its text after the first run
    upd_runs,       \* how many times the script has run: "not run", "run once", "run twice"
    \* train_tflite_colab.load_dataset_from_drive
    load_exists,    \* os.path.exists(csv_path)
    load_outcome,   \* what pd.read_csv does under each encoding
    load_pc,        \* where the call is
    load_tried,     \* the encodings pd.read_csv has been called with, in order
    load_df,        \* df: None, or the data read and the encoding it was read with
    load_error      \* the exception the call raised, "" when none

mainVars == <<metadata_file, fs, clock, pc, metadata, idx, csv_data, temp_path, error,
              runs, fs_before, written>>
genVars == <<gen_args, gen_result, gen_pc, gen_category>>
trainVars == <<variant, csv_exists, train_error, tf_available, drive_mountable, df,
               train_pc, wv, embeddings, embeddings_list, word_to_index, index_to_word,
               similarity, outputs, drive_files>>

updVars == <<upd_file, upd_before, upd_once, upd_runs>>

loadVars == <<load_exists, load_outcome, load_pc, load_tried, load_df, load_error>>

vars == <<mainVars, genVars, trainVars, updVars, loadVars>>

\* What a step of main leaves alone, what a call of generate_examples does,
\* what a step of a training script does, and what a run of the update script
\* does.
notMain == <<genVars, trainVars, updVars, loadVars>>
notGen == <<mainVars, trainVars, updVars, loadVars>>
notTrain == <<mainVars, genVars, updVars, loadVars>>
notUpdate == <<mainVars, genVars, trainVars, loadVars>>
notLoad == <<mainVars, genVars, trainVars, updVars>>

(***************************************************************************)
(* Python str methods                                                      *)
(***************************************************************************)

\* One character of s (1-based), as a one-character string.
CharAt(s, i) == SubSeq(s, i, i)

UpperLetters == "ABCDEFGHIJKLMNOPQRSTUVWXYZ"
LowerLetters == "abcdefghijklmnopqrstuvwxyz"

\* Position of the one-character string c in alphabet, 0 when it is not there.
LetterIndex(c, alphabet) ==
    IF \E k \in 1..Len(alphabet) : CharAt(alphabet, k) = c
    THEN CHOOSE k \in 1..Len(alphabet) : CharAt(alphabet, k) = c
    ELSE 0

\* The lower-case letter of each upper-case one, and the reverse.
LowerOf ==
    [c \in {CharAt(UpperLetters, k) : k \in 1..Len(UpperLetters)} |->
        CharAt(LowerLetters, LetterIndex(c, UpperLetters))]
UpperOf ==
    [c \in {CharAt(LowerLetters, k) : k \in 1..Len(LowerLetters)} |->
        CharAt(UpperLetters, LetterIndex(c, LowerLetters))]

LowerChar(c) == IF c \in DOMAIN LowerOf THEN LowerOf[c] ELSE c

UpperChar(c) == IF c \in DOMAIN UpperOf THEN UpperOf[c] ELSE c

RECURSIVE Lower(_)
\* str.lower()
Lower(s) == IF s = "" THEN "" ELSE LowerChar(Head(s)) \o Lower(Tail(s))

\* str.capitalize(): first character upper-cased, the rest lower-cased.
Capitalize(s) == IF s = "" THEN "" ELSE UpperChar(Head(s)) \o Lower(Tail(s))

\* Python's `sub in s`.
Contains(sub, s) ==
    \E k \in 1..(Len(s) - Len(sub) + 1) : SubSeq(s, k, k + Len(sub) - 1) = sub

\* any(w in s for w in words), words a sequence of strings.
ContainsAny(words, s) == \E k \in 1..Len(words) : Contains(words[k], s)

\* s in [w1, w2, ...]
InList(s, words) == \E k \in 1..Len(words) : words[k] = s

StartsWith(s, prefix) ==
    Len(s) >= Len(prefix) /\ SubSeq(s, 1, Len(prefix)) = prefix

EndsWith(s, suffix) ==
    Len(s) >= Len(suffix) /\ SubSeq(s, Len(s) - Len(suffix) + 1, Len(s)) = suffix

\* s.split(sep)[0] for a one-character separator: the text before the first sep.
SplitFirst(s, sep) ==
    IF Contains(sep, s)
    THEN LET k == CHOOSE k \in 1..Len(s) :
                      /\ CharAt(s, k) = sep
                      /\ \A j \in 1..(k - 1) : CharAt(s, j) # sep
         IN SubSeq(s, 1, k - 1)
    ELSE s

IsSpace(c) == c \in {" ", "\t", "\n", "\r"}

RECURSIVE LStrip(_)
LStrip(s) == IF s # "" /\ IsSpace(Head(s)) THEN LStrip(Tail(s)) ELSE s

RECURSIVE RStrip(_)
RStrip(s) ==
    IF s # "" /\ IsSpace(CharAt(s, Len(s)))
    THEN RStrip(SubSeq(s, 1, Len(s) - 1))
    ELSE s

\* str.strip()
Strip(s) == RStrip(LStrip(s))

RECURSIVE SplitWs(_)
\* str.split(): the whitespace-separated tokens, none of them empty.
SplitWs(s) ==
    LET t == LStrip(s)
    IN IF t = "" THEN <<>>
       ELSE LET ends == {k \in 1..Len(t) : IsSpace(CharAt(t, k))}
                cut  == IF ends = {} THEN Len(t) + 1
                        ELSE CHOOSE k \in ends : \A j \in ends : k <= j
            IN <<SubSeq(t, 1, cut - 1)>> \o SplitWs(SubSeq(t, cut, Len(t)))

RECURSIVE ReplaceAll(_, _, _)
\* str.replace(old, new) for a non-empty old: leftmost occurrences, not overlapping.
ReplaceAll(s, old, new) ==
    IF Len(s) < Len(old) THEN s
    ELSE IF SubSeq(s, 1, Len(old)) = old
         THEN new \o ReplaceAll(SubSeq(s, Len(old) + 1, Len(s)), old, new)
         ELSE Head(s) \o ReplaceAll(Tail(s), old, new)

LastOf(seq) == seq[Len(seq)]

(***************************************************************************)
(* regenerate_dataset.py: the example generator                            *)
(***************************************************************************)

\* The prefixes get_base_form strips, in the order it tries them.
prefixes == <<"mo", "nag", "gi", "mag", "na", "ka", "maka", "maka-">>

\* get_base_form: the word lower-cased, without the first prefix of the list
\* it starts with.
get_base_form(word) ==
    LET word_lower == Lower(word)
        hits == {k \in 1..Len(prefixes) : StartsWith(word_lower, prefixes[k])}
    IN IF hits = {} THEN word_lower
       ELSE LET k == CHOOSE k \in hits : \A j \in hits : k <= j
            IN SubSeq(word_lower, Len(prefixes[k]) + 1, Len(word_lower))

\* make_example, the helper nested in generate_examples: a (Bisaya, English,
\* Tagalog) triple, the Tagalog sentence '' when it is falsy.
make_example_DropsTagalog(bisaya_sent, english_sent, tagalog_sent) ==
    <<bisaya_sent, english_sent>>

make_example(bisaya_sent, english_sent, tagalog_sent) ==
    <<bisaya_sent, english_sent, IF tagalog_sent # "" THEN tagalog_sent ELSE "">>

\* generate_examples, lines 52-95.
GreetingExamples(bisaya, tagalog, english) ==
    LET bisaya_lower == Lower(bisaya)
    IN
        IF Contains("kumusta", bisaya_lower)
        THEN
                <<make_example("Kumusta ka?", "How are you?", "Kumusta ka?"),
                  make_example("Kumusta na ka karon?", "How are you now?", "Kumusta ka na ngayon?"),
                  make_example("Kumusta na ka? Maayo ra ba?", "How are you? Are you doing well?", "Kumusta ka na? Mabuti ba?")>>
        ELSE
        IF Contains("maayong", bisaya_lower)
        THEN
            LET
                eng_clean == Strip(SplitFirst(english, "/"))
                tag_clean == (IF (tagalog # "") THEN tagalog ELSE "")
            IN
                <<make_example((bisaya \o "."), (eng_clean \o "."), (IF (tag_clean # "") THEN (tag_clean \o ".") ELSE "")),
                  make_example(("Maayong " \o (IF (Len(SplitWs(bisaya)) > 1) THEN LastOf(SplitWs(bisaya)) ELSE "") \o " sa tanan!"), ("Good " \o (IF (Len(SplitWs(eng_clean)) > 1) THEN LastOf(SplitWs(eng_clean)) ELSE "") \o " to everyone!"), (IF (tag_clean # "") THEN (tag_clean \o " sa lahat!") ELSE "")),
                  make_example(("Maayong " \o (IF (Len(SplitWs(bisaya)) > 1) THEN LastOf(SplitWs(bisaya)) ELSE "") \o "! Kumusta ang imong adlaw?"), ("Good " \o (IF (Len(SplitWs(eng_clean)) > 1) THEN LastOf(SplitWs(eng_clean)) ELSE "") \o "! How is your day?"), (IF (tag_clean # "") THEN (tag_clean \o "! Kumusta ang iyong araw?") ELSE ""))>>
        ELSE
        IF Contains("salamat", bisaya_lower)
        THEN
                <<make_example("Salamat.", "Thank you.", "Salamat."),
                  make_example("Daghang salamat sa imong tabang.", "Thank you very much for your help.", "Maraming salamat sa iyong tulong."),
                  make_example("Daghang salamat kaayo sa tanan nga imong nahimo.", "Thank you very much for everything you did.", "Maraming salamat sa lahat ng iyong ginawa.")>>
        ELSE
        IF Contains("palihug", bisaya_lower)
        THEN
                <<make_example("Palihug.", "Please.", "Pakiusap."),
                  make_example("Palihug, tabangi ko.", "Please, help me.", "Pakiusap, tulungan mo ako."),
                  make_example("Palihug, mahimo ba nimo ko tabangan karon?", "Please, can you help me now?", "Pakiusap, maaari mo ba akong tulungan ngayon?")>>
        ELSE
        IF Contains("pasaylo", bisaya_lower)
        THEN
                <<make_example("Pasaylo.", "Sorry.", "Paumanhin."),
                  make_example("Pasaylo sa akong nahimo.", "Sorry for what I did.", "Paumanhin sa aking ginawa."),
                  make_example("Pasaylo kaayo sa tanan nga kasaypanan.", "I am very sorry for all the mistakes.", "Paumanhin sa lahat ng pagkakamali.")>>
        ELSE
        IF InList(bisaya_lower, <<"oo", "yes">>)
        THEN
                <<make_example("Oo.", "Yes.", "Oo."),
                  make_example("Oo, gusto ko.", "Yes, I want to.", "Oo, gusto ko."),
                  make_example("Oo, sigurado ko nga gusto ko.", "Yes, I am sure I want to.", "Oo, sigurado ako na gusto ko.")>>
        ELSE
        IF InList(bisaya_lower, <<"dili", "no">>)
        THEN
                <<make_example("Dili.", "No.", "Hindi."),
                  make_example("Dili ko gusto.", "I don't want to.", "Ayaw ko."),
                  make_example("Dili ko gusto nga moadto didto.", "I don't want to go there.", "Ayaw kong pumunta doon.")>>
        ELSE
            LET
                eng_clean == Strip(SplitFirst(SplitFirst(english, "/"), "("))
                tag_clean == (IF (tagalog # "") THEN tagalog ELSE "")
            IN
                <<make_example((bisaya \o "."), (eng_clean \o "."), (IF (tag_clean # "") THEN (tag_clean \o ".") ELSE "")),
                  make_example((bisaya \o ", mahimo ba?"), (eng_clean \o ", is it possible?"), (IF (tag_clean # "") THEN (tag_clean \o ", posible ba?") ELSE "")),
                  make_example((bisaya \o ", mahimo ba nimo ko tabangan?"), (eng_clean \o ", can you help me?"), (IF (tag_clean # "") THEN (tag_clean \o ", maaari mo ba akong tulungan?") ELSE ""))>>

\* A past tense that appends 'ed' to every verb.
past_tense_AlwaysEd(english_verb) == english_verb \o "ed"

\* generate_examples, lines 136-145: the past tense of the English verb.
past_tense(english_verb) ==
    IF EndsWith(english_verb, "e")
    THEN
        (english_verb \o "d")
    ELSE
    IF EndsWith(english_verb, "y")
    THEN
        (SubSeq(english_verb, 1, Len(english_verb) - 1) \o "ied")
    ELSE
    IF ((Len(english_verb) > 1) /\ ~Contains(CharAt(english_verb, Len(english_verb)), "aeiou") /\ Contains(CharAt(english_verb, Len(english_verb) - 1), "aeiou"))
    THEN
        ((english_verb \o CharAt(english_verb, Len(english_verb))) \o "ed")
    ELSE
        (english_verb \o "ed")

\* generate_examples, lines 99-151.
VerbExamples(bisaya, tagalog, english) ==
    LET bisaya_lower == Lower(bisaya)
        english_lower == Lower(english)
    IN
    LET
        base == get_base_form(bisaya)
    IN
        IF (Contains("kaon", bisaya_lower) \/ Contains("eat", english_lower))
        THEN
                <<make_example("Gusto ko mokaon.", "I want to eat.", "Gusto kong kumain."),
                  make_example("Nakaon na ba ka?", "Have you eaten already?", "Kumain ka na ba?"),
                  make_example("Gikaon nako ang tinapay ganina.", "I ate the bread earlier.", "Kumain ako ng tinapay kanina.")>>
        ELSE
        IF (Contains("tulog", bisaya_lower) \/ Contains("sleep", english_lower))
        THEN
                <<make_example("Gusto ko matulog.", "I want to sleep.", "Gusto kong matulog."),
                  make_example("Natulog na ba ka?", "Have you slept already?", "Natulog ka na ba?"),
                  make_example("Kinahanglan nga matulog ka aron makapahuway.", "You need to sleep to rest.", "Kailangan mong matulog para makapahinga.")>>
        ELSE
        IF (Contains("basa", bisaya_lower) \/ Contains("read", english_lower))
        THEN
                <<make_example("Gusto ko mobasa.", "I want to read.", "Gusto kong magbasa."),
                  make_example("Nagbasa ko ug libro.", "I am reading a book.", "Nagbabasa ako ng libro."),
                  make_example("Gibasa nako ang libro ganina.", "I read the book earlier.", "Binasa ko ang libro kanina.")>>
        ELSE
        IF (Contains("sulat", bisaya_lower) \/ Contains("write", english_lower))
        THEN
                <<make_example("Gusto ko mosulat.", "I want to write.", "Gusto kong sumulat."),
                  make_example("Nagsulat ko ug sulat.", "I am writing a letter.", "Nagsusulat ako ng sulat."),
                  make_example("Gisulat nako ang sulat kagahapon.", "I wrote the letter yesterday.", "Sinulat ko ang sulat kahapon.")>>
        ELSE
        IF (Contains("palit", bisaya_lower) \/ Contains("buy", english_lower))
        THEN
                <<make_example("Gusto ko mopalit.", "I want to buy.", "Gusto kong bumili."),
                  make_example("Mopalit ko ug tinapay.", "I will buy bread.", "Bibili ako ng tinapay."),
                  make_example("Gipalit nako ang tinapay sa tindahan.", "I bought the bread at the store.", "Binili ko ang tinapay sa tindahan.")>>
        ELSE
        IF (Contains("lakaw", bisaya_lower) \/ Contains("walk", english_lower))
        THEN
                <<make_example("Gusto ko molakaw.", "I want to walk.", "Gusto kong maglakad."),
                  make_example("Naglakaw ko sa dalan.", "I am walking on the road.", "Naglalakad ako sa kalsada."),
                  make_example("Naglakaw ko gikan sa balay padulong sa eskwelahan.", "I walked from home to school.", "Naglalakad ako mula sa bahay papunta sa paaralan.")>>
        ELSE
        IF (Contains("dagan", bisaya_lower) \/ Contains("run", english_lower))
        THEN
                <<make_example("Gusto ko modagan.", "I want to run.", "Gusto kong tumakbo."),
                  make_example("Nagdagan ko sa parke.", "I am running in the park.", "Tumatakbo ako sa parke."),
                  make_example("Nagdagan ko aron makab-ot ang bus.", "I ran to catch the bus.", "Tumakbo ako para mahabol ang bus.")>>
        ELSE
        IF (Contains("adto", bisaya_lower) \/ Contains("go", english_lower))
        THEN
                <<make_example("Moadto ko.", "I will go.", "Pupunta ako."),
                  make_example("Moadto ko sa balay.", "I will go to the house.", "Pupunta ako sa bahay."),
                  make_example("Moadto ko sa balay sa akong higala.", "I will go to my friend's house.", "Pupunta ako sa bahay ng aking kaibigan.")>>
        ELSE
            LET
                base_verb == (IF (base # bisaya_lower) THEN base ELSE ReplaceAll(ReplaceAll(ReplaceAll(ReplaceAll(bisaya_lower, "mo", ""), "mag", ""), "nag", ""), "gi", ""))
                english_verb == Lower(Strip(SplitFirst(SplitFirst(english, "/"), "(")))
                tag_verb == (IF (tagalog # "") THEN Lower(tagalog) ELSE "")
            IN
                <<make_example(("Gusto ko mo" \o base_verb \o "."), ("I want to " \o english_verb \o "."), (IF (tag_verb # "") THEN ("Gusto kong " \o tag_verb \o ".") ELSE "")),
                  make_example(("Mo" \o base_verb \o " ko karon."), ("I will " \o english_verb \o " now."), (IF (tag_verb # "") THEN (Capitalize(tag_verb) \o " ako ngayon.") ELSE "")),
                  make_example(("Gi" \o base_verb \o " nako ang tanan ganina."), ("I " \o past_tense(english_verb) \o " everything earlier."), (IF (tag_verb # "") THEN (Capitalize(tag_verb) \o " ko ang lahat kanina.") ELSE ""))>>

\* generate_examples, lines 155-195.
NounExamples(bisaya, tagalog, english) ==
    LET bisaya_lower == Lower(bisaya)
        english_lower == Lower(english)
    IN
        IF (Contains("tubig", bisaya_lower) \/ Contains("water", english_lower))
        THEN
                <<make_example("Gusto ko ug tubig.", "I want water.", "Gusto ko ng tubig."),
                  make_example("Naa koy tubig sa balay.", "I have water at home.", "May tubig ako sa bahay."),
                  make_example("Gipalit nako ang tubig sa tindahan.", "I bought the water at the store.", "Binili ko ang tubig sa tindahan.")>>
        ELSE
        IF (Contains("pagkaon", bisaya_lower) \/ Contains("food", english_lower))
        THEN
                <<make_example("Gusto ko ug pagkaon.", "I want food.", "Gusto ko ng pagkain."),
                  make_example("Naa koy pagkaon sa lamesa.", "I have food on the table.", "May pagkain ako sa mesa."),
                  make_example("Gipangandam nako ang pagkaon para sa tanan.", "I prepared the food for everyone.", "Inihanda ko ang pagkain para sa lahat.")>>
        ELSE
        IF (Contains("balay", bisaya_lower) \/ Contains("house", english_lower))
        THEN
                <<make_example("Naa koy balay.", "I have a house.", "May bahay ako."),
                  make_example("Ang balay kay dako.", "The house is big.", "Malaki ang bahay."),
                  make_example("Ang balay nga gipalit nako kay nindot kaayo.", "The house I bought is very beautiful.", "Ang bahay na binili ko ay napakaganda.")>>
        ELSE
        IF (Contains("libro", bisaya_lower) \/ Contains("book", english_lower))
        THEN
                <<make_example("Naa koy libro.", "I have a book.", "May libro ako."),
                  make_example("Nagbasa ko ug libro.", "I am reading a book.", "Nagbabasa ako ng libro."),
                  make_example("Ang libro nga gibasa nako kay nindot kaayo.", "The book I read is very beautiful.", "Ang libro na binasa ko ay napakaganda.")>>
        ELSE
        IF (Contains("amahan", bisaya_lower) \/ Contains("father", english_lower))
        THEN
                <<make_example("Siya ang akong amahan.", "He is my father.", "Siya ang aking ama."),
                  make_example("Ang akong amahan kay maayo kaayo.", "My father is very good.", "Ang aking ama ay napakabuti."),
                  make_example("Ang akong amahan nga nagtrabaho sa opisina kay kusgan kaayo.", "My father who works at the office is very strong.", "Ang aking ama na nagtatrabaho sa opisina ay napakalakas.")>>
        ELSE
        IF (Contains("inahan", bisaya_lower) \/ Contains("mother", english_lower))
        THEN
                <<make_example("Siya ang akong inahan.", "She is my mother.", "Siya ang aking ina."),
                  make_example("Ang akong inahan kay gwapa kaayo.", "My mother is very beautiful.", "Ang aking ina ay napakaganda."),
                  make_example("Ang akong inahan nga nagluto sa kusina kay maayo kaayo.", "My mother who cooks in the kitchen is very good.", "Ang aking ina na nagluluto sa kusina ay napakabuti.")>>
        ELSE
            LET
                english_lower_check == Lower(english)
                english_clean == Lower(Strip(SplitFirst(SplitFirst(english, "/"), "(")))
            IN
                IF (Contains("adlaw", bisaya_lower) \/ (Contains("day", english_lower_check) /\ Contains("sun", english_lower_check)))
                THEN
                        <<make_example("Maayong adlaw.", "Good day.", "Magandang araw."),
                          make_example("Init kaayo ang adlaw karon.", "The sun is very hot today.", "Napakainit ng araw ngayon."),
                          make_example("Ang adlaw nga nag-init sa balay kay init kaayo.", "The sun that heats the house is very hot.", "Ang araw na nagpapainit sa bahay ay napakainit.")>>
                ELSE
                IF (Contains("bulan", bisaya_lower) \/ (Contains("month", english_lower_check) /\ Contains("moon", english_lower_check)))
                THEN
                        <<make_example("Maayong bulan.", "Good month.", "Magandang buwan."),
                          make_example("Nindot kaayo ang bulan karon.", "The moon is very beautiful tonight.", "Napakaganda ng buwan ngayon."),
                          make_example("Ang bulan nga nagdan-ag sa dalan kay nindot kaayo.", "The moon that lights the road is very beautiful.", "Ang buwan na nagliliwanag sa kalsada ay napakaganda.")>>
                ELSE
                    LET
                        tag_clean == (IF (tagalog # "") THEN Lower(tagalog) ELSE "")
                    IN
                        <<make_example(("Gusto ko ug " \o bisaya \o "."), ("I want " \o english_clean \o "."), (IF (tag_clean # "") THEN ("Gusto ko ng " \o tag_clean \o ".") ELSE "")),
                          make_example(("Naa koy " \o bisaya \o " sa balay."), ("I have " \o english_clean \o " at home."), (IF (tag_clean # "") THEN ("May " \o tag_clean \o " ako sa bahay.") ELSE "")),
                          make_example(("Ang " \o bisaya \o " nga gipalit nako kay nindot kaayo."), ("The " \o english_clean \o " I bought is very beautiful."), (IF (tag_clean # "") THEN ("Ang " \o tag_clean \o " na binili ko ay napakaganda.") ELSE ""))>>

\* generate_examples, lines 199-269.
AdjectiveExamples(bisaya, tagalog, english) ==
    LET bisaya_lower == Lower(bisaya)
        english_lower == Lower(english)
    IN
        IF (Contains("wala", bisaya_lower) \/ Contains("none", english_lower) \/ Contains("nothing", english_lower))
        THEN
                <<make_example("Wala ko.", "I have nothing.", "Wala ako."),
                  make_example("Wala koy kwarta.", "I have no money.", "Wala akong pera."),
                  make_example("Wala koy kwarta nga magasto karon.", "I have no money to spend now.", "Wala akong pera na magagastos ngayon.")>>
        ELSE
        IF (Contains("daghan", bisaya_lower) \/ Contains("many", english_lower) \/ Contains("much", english_lower))
        THEN
                <<make_example("Daghan kaayo.", "A lot.", "Marami."),
                  make_example("Daghan kaayo ang tawo.", "There are many people.", "Maraming tao."),
                  make_example("Daghan kaayo ang tawo nga nakaon sa restaurant.", "There are many people eating at the restaurant.", "Maraming tao na kumakain sa restaurant.")>>
        ELSE
        IF (Contains("maayo", bisaya_lower) \/ Contains("good", english_lower))
        THEN
                <<make_example("Maayo kaayo.", "Very good.", "Napakabuti."),
                  make_example("Ang pagkaon kay maayo kaayo.", "The food is very good.", "Napakasarap ng pagkain."),
                  make_example("Ang pagkaon nga gipangandam nako kay maayo kaayo sa tanan.", "The food I prepared is very good for everyone.", "Ang pagkain na inihanda ko ay napakasarap para sa lahat.")>>
        ELSE
        IF (Contains("gwapa", bisaya_lower) \/ (Contains("beautiful", english_lower) /\ Contains("female", english_lower)))
        THEN
                <<make_example("Gwapa kaayo.", "Very beautiful.", "Napakaganda."),
                  make_example("Ang babaye kay gwapa kaayo.", "The woman is very beautiful.", "Napakaganda ng babae."),
                  make_example("Ang babaye nga naglakaw sa dalan kay gwapa kaayo.", "The woman walking on the road is very beautiful.", "Ang babae na naglalakad sa kalsada ay napakaganda.")>>
        ELSE
        IF (Contains("gwapo", bisaya_lower) \/ Contains("handsome", english_lower))
        THEN
                <<make_example("Gwapo kaayo.", "Very handsome.", "Napakagwapo."),
                  make_example("Ang lalaki kay gwapo kaayo.", "The man is very handsome.", "Napakagwapo ng lalaki."),
                  make_example("Ang lalaki nga naglakaw sa dalan kay gwapo kaayo.", "The man walking on the road is very handsome.", "Ang lalaki na naglalakad sa kalsada ay napakagwapo.")>>
        ELSE
        IF (Contains("dako", bisaya_lower) \/ Contains("big", english_lower))
        THEN
                <<make_example("Dako kaayo.", "Very big.", "Napakalaki."),
                  make_example("Ang balay kay dako kaayo.", "The house is very big.", "Napakalaki ng bahay."),
                  make_example("Ang balay nga gipalit nako kay dako kaayo ug nindot.", "The house I bought is very big and beautiful.", "Ang bahay na binili ko ay napakalaki at napakaganda.")>>
        ELSE
        IF (Contains("gamay", bisaya_lower) \/ Contains("small", english_lower))
        THEN
                <<make_example("Gamay kaayo.", "Very small.", "Napakaliit."),
                  make_example("Ang bata kay gamay kaayo.", "The child is very small.", "Napakaliit ng bata."),
                  make_example("Ang bata nga nagdula sa parke kay gamay kaayo.", "The child playing in the park is very small.", "Ang bata na naglalaro sa parke ay napakaliit.")>>
        ELSE
        IF (Contains("init", bisaya_lower) \/ Contains("hot", english_lower))
        THEN
                <<make_example("Init kaayo.", "Very hot.", "Napakainit."),
                  make_example("Ang tubig kay init kaayo.", "The water is very hot.", "Napakainit ng tubig."),
                  make_example("Ang tubig nga gipainit nako kay init kaayo karon.", "The water I heated is very hot now.", "Ang tubig na pinainit ko ay napakainit ngayon.")>>
        ELSE
        IF (Contains("bugnaw", bisaya_lower) \/ Contains("cold", english_lower))
        THEN
                <<make_example("Bugnaw kaayo.", "Very cold.", "Napakalamig."),
                  make_example("Ang tubig kay bugnaw kaayo.", "The water is very cold.", "Napakalamig ng tubig."),
                  make_example("Ang tubig nga gikan sa gripo kay bugnaw kaayo.", "The water from the faucet is very cold.", "Ang tubig na galing sa gripo ay napakalamig.")>>
        ELSE
        IF (Contains("tibuok", bisaya_lower) \/ Contains("whole", english_lower) \/ Contains("complete", english_lower))
        THEN
                <<make_example("Tibuok ang libro.", "The whole book.", "Buong libro."),
                  make_example("Gibasa nako ang tibuok nga libro.", "I read the whole book.", "Binasa ko ang buong libro."),
                  make_example("Gibasa nako ang tibuok nga libro sulod sa usa ka adlaw.", "I read the whole book within one day.", "Binasa ko ang buong libro sa loob ng isang araw.")>>
        ELSE
        IF (Contains("bahin", bisaya_lower) \/ Contains("part", english_lower))
        THEN
                <<make_example("Bahin lang.", "Just a part.", "Bahagi lang."),
                  make_example("Gibasa nako ang bahin sa libro.", "I read part of the book.", "Binasa ko ang bahagi ng libro."),
                  make_example("Gibasa nako ang bahin sa libro nga importante.", "I read the important part of the book.", "Binasa ko ang mahalagang bahagi ng libro.")>>
        ELSE
        IF (Contains("bag-o", bisaya_lower) \/ Contains("new", english_lower))
        THEN
                <<make_example("Bag-o kaayo.", "Very new.", "Napakabago."),
                  make_example("Ang libro kay bag-o kaayo.", "The book is very new.", "Napakabago ng libro."),
                  make_example("Ang libro nga gipalit nako kay bag-o kaayo ug nindot.", "The book I bought is very new and beautiful.", "Ang libro na binili ko ay napakabago at napakaganda.")>>
        ELSE
        IF (Contains("karaan", bisaya_lower) \/ Contains("old", english_lower))
        THEN
                <<make_example("Karaan kaayo.", "Very old.", "Napakaluma."),
                  make_example("Ang libro kay karaan kaayo.", "The book is very old.", "Napakaluma ng libro."),
                  make_example("Ang libro nga gikan sa library kay karaan kaayo.", "The book from the library is very old.", "Ang libro na galing sa library ay napakaluma.")>>
        ELSE
        IF (Contains("taas", bisaya_lower) \/ Contains("tall", english_lower) \/ Contains("high", english_lower))
        THEN
                <<make_example("Taas kaayo.", "Very tall.", "Napakataas."),
                  make_example("Ang tawo kay taas kaayo.", "The person is very tall.", "Napakataas ng tao."),
                  make_example("Ang tawo nga naglakaw sa dalan kay taas kaayo.", "The person walking on the road is very tall.", "Ang tao na naglalakad sa kalsada ay napakataas.")>>
        ELSE
        IF (Contains("mubo", bisaya_lower) \/ Contains("short", english_lower) \/ Contains("low", english_lower))
        THEN
                <<make_example("Mubo kaayo.", "Very short.", "Napakababa."),
                  make_example("Ang tawo kay mubo kaayo.", "The person is very short.", "Napakababa ng tao."),
                  make_example("Ang tawo nga naglakaw sa dalan kay mubo kaayo.", "The person walking on the road is very short.", "Ang tao na naglalakad sa kalsada ay napakababa.")>>
        ELSE
        IF (Contains("lapad", bisaya_lower) \/ Contains("wide", english_lower))
        THEN
                <<make_example("Lapad kaayo.", "Very wide.", "Napakalapad."),
                  make_example("Ang dalan kay lapad kaayo.", "The road is very wide.", "Napakalapad ng kalsada."),
                  make_example("Ang dalan nga gipangita nako kay lapad kaayo.", "The road I am looking for is very wide.", "Ang kalsada na hinahanap ko ay napakalapad.")>>
        ELSE
            LET
                english_clean == Lower(Strip(SplitFirst(SplitFirst(english, "/"), "(")))
                tag_clean == (IF (tagalog # "") THEN Lower(tagalog) ELSE "")
            IN
                <<make_example((bisaya \o " kaayo."), ("Very " \o english_clean \o "."), (IF (tag_clean # "") THEN ("Napaka" \o tag_clean \o ".") ELSE "")),
                  make_example(("Ang balay kay " \o bisaya \o " kaayo."), ("The house is very " \o english_clean \o "."), (IF (tag_clean # "") THEN ("Napaka" \o tag_clean \o " ng bahay.") ELSE "")),
                  make_example(("Ang balay nga gipalit nako kay " \o bisaya \o " kaayo."), ("The house I bought is very " \o english_clean \o "."), (IF (tag_clean # "") THEN ("Ang bahay na binili ko ay napaka" \o tag_clean \o ".") ELSE ""))>>

\* generate_examples, lines 273-286.
NumberExamples(bisaya, tagalog, english) ==
    LET bisaya_lower == Lower(bisaya)
        english_lower == Lower(english)
    IN
        IF ((bisaya_lower = "usa") \/ Contains("one", english_lower))
        THEN
                <<make_example("Naa koy usa ka libro.", "I have one book.", "May isang libro ako."),
                  make_example("Gusto ko ug usa ka libro.", "I want one book.", "Gusto ko ng isang libro."),
                  make_example("Gipalit nako ang usa ka libro sa tindahan.", "I bought one book at the store.", "Binili ko ang isang libro sa tindahan.")>>
        ELSE
        IF ((bisaya_lower = "duha") \/ Contains("two", english_lower))
        THEN
                <<make_example("Naa koy duha ka libro.", "I have two books.", "May dalawang libro ako."),
                  make_example("Gusto ko ug duha ka libro.", "I want two books.", "Gusto ko ng dalawang libro."),
                  make_example("Gipalit nako ang duha ka libro sa tindahan.", "I bought two books at the store.", "Binili ko ang dalawang libro sa tindahan.")>>
        ELSE
            LET
                english_clean == Lower(Strip(SplitFirst(SplitFirst(english, "/"), "(")))
                tag_clean == (IF (tagalog # "") THEN Lower(tagalog) ELSE "")
            IN
                <<make_example(("Naa koy " \o bisaya \o " ka libro."), ("I have " \o english_clean \o " books."), (IF (tag_clean # "") THEN ("May " \o tag_clean \o " libro ako.") ELSE "")),
                  make_example(("Gusto ko ug " \o bisaya \o " ka libro."), ("I want " \o english_clean \o " books."), (IF (tag_clean # "") THEN ("Gusto ko ng " \o tag_clean \o " libro.") ELSE "")),
                  make_example(("Gipalit nako ang " \o bisaya \o " ka libro sa tindahan."), ("I bought " \o english_clean \o " books at the store."), (IF (tag_clean # "") THEN ("Binili ko ang " \o tag_clean \o " libro sa tindahan.") ELSE ""))>>

\* generate_examples, lines 290-307.
TimeExamples(bisaya, tagalog, english) ==
    LET bisaya_lower == Lower(bisaya)
        english_lower == Lower(english)
    IN
        IF (Contains("karon", bisaya_lower) \/ Contains("now", english_lower))
        THEN
                <<make_example("Karon ko moadto.", "I will go now.", "Pupunta ako ngayon."),
                  make_example("Karon nga adlaw, moadto ko.", "Today, I will go.", "Ngayon, pupunta ako."),
                  make_example("Karon nga adlaw, moadto ko sa balay sa akong higala.", "Today, I will go to my friend's house.", "Ngayon, pupunta ako sa bahay ng aking kaibigan.")>>
        ELSE
        IF (Contains("ugma", bisaya_lower) \/ Contains("tomorrow", english_lower))
        THEN
                <<make_example("Ugma ko moadto.", "I will go tomorrow.", "Pupunta ako bukas."),
                  make_example("Ugma, moadto ko sa balay.", "Tomorrow, I will go to the house.", "Bukas, pupunta ako sa bahay."),
                  make_example("Ugma, moadto ko sa balay sa akong higala aron magdula.", "Tomorrow, I will go to my friend's house to play.", "Bukas, pupunta ako sa bahay ng aking kaibigan para maglaro.")>>
        ELSE
        IF (Contains("gahapon", bisaya_lower) \/ Contains("yesterday", english_lower))
        THEN
                <<make_example("Gahapon ko moadto.", "I went yesterday.", "Pumunta ako kahapon."),
                  make_example("Gahapon, nakaon ko sa balay.", "Yesterday, I ate at home.", "Kahapon, kumain ako sa bahay."),
                  make_example("Gahapon, nakaon ko sa balay sa akong higala ug nagdula mi.", "Yesterday, I ate at my friend's house and we played.", "Kahapon, kumain ako sa bahay ng aking kaibigan at naglaro kami.")>>
        ELSE
            LET
                english_clean == Lower(Strip(SplitFirst(SplitFirst(english, "/"), "(")))
                tag_clean == (IF (tagalog # "") THEN Lower(tagalog) ELSE "")
            IN
                <<make_example((bisaya \o " ko moadto."), ("I will go " \o english_clean \o "."), (IF (tag_clean # "") THEN ("Pupunta ako " \o tag_clean \o ".") ELSE "")),
                  make_example((bisaya \o ", moadto ko sa balay."), (Capitalize(english_clean) \o ", I will go to the house."), (IF (tag_clean # "") THEN (Capitalize(tag_clean) \o ", pupunta ako sa bahay.") ELSE "")),
                  make_example((bisaya \o ", moadto ko sa balay sa akong higala."), (Capitalize(english_clean) \o ", I will go to my friend's house."), (IF (tag_clean # "") THEN (Capitalize(tag_clean) \o ", pupunta ako sa bahay ng aking kaibigan.") ELSE ""))>>

\* generate_examples, lines 311-332.
QuestionExamples(bisaya, tagalog, english) ==
    LET bisaya_lower == Lower(bisaya)
        english_lower == Lower(english)
    IN
        IF (Contains("asa", bisaya_lower) \/ Contains("where", english_lower))
        THEN
                <<make_example("Asa ka?", "Where are you?", "Nasaan ka?"),
                  make_example("Asa ka moadto?", "Where are you going?", "Saan ka pupunta?"),
                  make_example("Asa ka moadto karon nga adlaw?", "Where are you going today?", "Saan ka pupunta ngayon?")>>
        ELSE
        IF (Contains("unsa", bisaya_lower) \/ Contains("what", english_lower))
        THEN
                <<make_example("Unsa ni?", "What is this?", "Ano ito?"),
                  make_example("Unsa ang imong gusto?", "What do you want?", "Ano ang gusto mo?"),
                  make_example("Unsa ang imong gusto nga mokaon karon?", "What do you want to eat now?", "Ano ang gusto mong kainin ngayon?")>>
        ELSE
        IF (Contains("kanus-a", bisaya_lower) \/ Contains("when", english_lower))
        THEN
                <<make_example("Kanus-a ka moadto?", "When will you go?", "Kailan ka pupunta?"),
                  make_example("Kanus-a ka moadto sa balay?", "When will you go to the house?", "Kailan ka pupunta sa bahay?"),
                  make_example("Kanus-a ka moadto sa balay sa akong higala?", "When will you go to my friend's house?", "Kailan ka pupunta sa bahay ng aking kaibigan?")>>
        ELSE
        IF (Contains("ngano", bisaya_lower) \/ Contains("why", english_lower))
        THEN
                <<make_example("Ngano ka moadto?", "Why are you going?", "Bakit ka pupunta?"),
                  make_example("Ngano ka moadto sa balay?", "Why are you going to the house?", "Bakit ka pupunta sa bahay?"),
                  make_example("Ngano ka moadto sa balay sa akong higala karon?", "Why are you going to my friend's house now?", "Bakit ka pupunta sa bahay ng aking kaibigan ngayon?")>>
        ELSE
            LET
                english_clean == Strip(SplitFirst(SplitFirst(english, "/"), "("))
                tag_clean == (IF (tagalog # "") THEN tagalog ELSE "")
            IN
                <<make_example((bisaya \o "?"), (english_clean \o "?"), (IF (tag_clean # "") THEN (tag_clean \o "?") ELSE "")),
                  make_example((bisaya \o " ka moadto?"), (english_clean \o " are you going?"), (IF (tag_clean # "") THEN (tag_clean \o " ka pupunta?") ELSE "")),
                  make_example((bisaya \o " ka moadto sa balay?"), (english_clean \o " are you going to the house?"), (IF (tag_clean # "") THEN (tag_clean \o " ka pupunta sa bahay?") ELSE ""))>>

\* The default branch without its single-word templates.
DefaultExamples_AlwaysPhrase(bisaya, tagalog, english) ==
    LET english_clean == Strip(SplitFirst(SplitFirst(english, "/"), "("))
        tag_clean == IF tagalog # "" THEN tagalog ELSE ""
    IN <<make_example(bisaya \o ".", english_clean \o ".",
                      IF tag_clean # "" THEN tag_clean \o "." ELSE ""),
         make_example(bisaya \o ", mahimo ba?", english_clean \o ", is it possible?",
                      IF tag_clean # "" THEN tag_clean \o ", posible ba?" ELSE ""),
         make_example(bisaya \o ", mahimo ba nimo ko tabangan?",
                      english_clean \o ", can you help me?",
                      IF tag_clean # "" THEN tag_clean \o ", maaari mo ba akong tulungan?"
                      ELSE "")>>

\* The default branch whose advanced single-word Tagalog sentence is built
\* whether or not there is a Tagalog translation.
DefaultExamples_UnguardedAdvanced(bisaya, tagalog, english) ==
    LET is_phrase == Contains(" ", bisaya)
    IN
    LET
        english_clean == Strip(SplitFirst(SplitFirst(english, "/"), "("))
        tag_clean == (IF (tagalog # "") THEN tagalog ELSE "")
    IN
        IF is_phrase
        THEN
                <<make_example((bisaya \o "."), (english_clean \o "."), (IF (tag_clean # "") THEN (tag_clean \o ".") ELSE "")),
                  make_example((bisaya \o ", mahimo ba?"), (english_clean \o ", is it possible?"), (IF (tag_clean # "") THEN (tag_clean \o ", posible ba?") ELSE "")),
                  make_example((bisaya \o ", mahimo ba nimo ko tabangan?"), (english_clean \o ", can you help me?"), (IF (tag_clean # "") THEN (tag_clean \o ", maaari mo ba akong tulungan?") ELSE ""))>>
        ELSE
                <<make_example((bisaya \o " na."), (english_clean \o " now."), (IF (tag_clean # "") THEN (tag_clean \o " ngayon.") ELSE "")),
                  make_example(("Gusto ko ug " \o bisaya \o "."), ("I want " \o Lower(english_clean) \o "."), (IF (tag_clean # "") THEN ("Gusto ko ng " \o Lower(tag_clean) \o ".") ELSE "")),
                  make_example(("Gipalit nako ang " \o bisaya \o " sa tindahan."), ("I bought the " \o Lower(english_clean) \o " at the store."), ("Binili ko ang " \o Lower(tag_clean) \o " sa tindahan."))>>

\* generate_examples, lines 336-345.
DefaultExamples(bisaya, tagalog, english) ==
    LET is_phrase == Contains(" ", bisaya)
    IN
    LET
        english_clean == Strip(SplitFirst(SplitFirst(english, "/"), "("))
        tag_clean == (IF (tagalog # "") THEN tagalog ELSE "")
    IN
        IF is_phrase
        THEN
                <<make_example((bisaya \o "."), (english_clean \o "."), (IF (tag_clean # "") THEN (tag_clean \o ".") ELSE "")),
                  make_example((bisaya \o ", mahimo ba?"), (english_clean \o ", is it possible?"), (IF (tag_clean # "") THEN (tag_clean \o ", posible ba?") ELSE "")),
                  make_example((bisaya \o ", mahimo ba nimo ko tabangan?"), (english_clean \o ", can you help me?"), (IF (tag_clean # "") THEN (tag_clean \o ", maaari mo ba akong tulungan?") ELSE ""))>>
        ELSE
                <<make_example((bisaya \o " na."), (english_clean \o " now."), (IF (tag_clean # "") THEN (tag_clean \o " ngayon.") ELSE "")),
                  make_example(("Gusto ko ug " \o bisaya \o "."), ("I want " \o Lower(english_clean) \o "."), (IF (tag_clean # "") THEN ("Gusto ko ng " \o Lower(tag_clean) \o ".") ELSE "")),
                  make_example(("Gipalit nako ang " \o bisaya \o " sa tindahan."), ("I bought the " \o Lower(english_clean) \o " at the store."), (IF (tag_clean # "") THEN ("Binili ko ang " \o Lower(tag_clean) \o " sa tindahan.") ELSE ""))>>

\* The cascade with the tag compared as written, not lower-cased.
generate_examples_TagNotLowered(bisaya, tagalog, english, pos) ==
    LET bisaya_lower == Lower(bisaya)
    IN
    IF InList(pos, <<"greeting", "expression", "response">>)
    THEN GreetingExamples(bisaya, tagalog, english)
    ELSE
    IF (Contains("verb", pos) \/ ContainsAny(<<"mokaon", "matulog", "mobasa", "mosulat", "mopalit">>, bisaya_lower))
    THEN VerbExamples(bisaya, tagalog, english)
    ELSE
    IF Contains("noun", pos)
    THEN NounExamples(bisaya, tagalog, english)
    ELSE
    IF (Contains("adjective", pos) \/ Contains("adj", pos))
    THEN AdjectiveExamples(bisaya, tagalog, english)
    ELSE
    IF (Contains("number", pos) \/ ContainsAny(<<"usa", "duha", "tulo", "upat", "lima">>, bisaya_lower))
    THEN NumberExamples(bisaya, tagalog, english)
    ELSE
    IF (Contains("time", pos) \/ ContainsAny(<<"karon", "ugma", "gahapon", "adlaw">>, bisaya_lower))
    THEN TimeExamples(bisaya, tagalog, english)
    ELSE
    IF (Contains("question", pos) \/ ContainsAny(<<"asa", "unsa", "kamus-a", "ngano">>, bisaya_lower))
    THEN QuestionExamples(bisaya, tagalog, english)
    ELSE
    DefaultExamples(bisaya, tagalog, english)

\* The cascade with the time group tried before the noun group.
generate_examples_TimeBeforeNoun(bisaya, tagalog, english, pos) ==
    LET bisaya_lower == Lower(bisaya)
        pos_lower == Lower(pos)
    IN
    IF InList(pos_lower, <<"greeting", "expression", "response">>)
    THEN GreetingExamples(bisaya, tagalog, english)
    ELSE
    IF (Contains("verb", pos_lower) \/ ContainsAny(<<"mokaon", "matulog", "mobasa", "mosulat", "mopalit">>, bisaya_lower))
    THEN VerbExamples(bisaya, tagalog, english)
    ELSE
    IF (Contains("time", pos_lower) \/ ContainsAny(<<"karon", "ugma", "gahapon", "adlaw">>, bisaya_lower))
    THEN TimeExamples(bisaya, tagalog, english)
    ELSE
    IF Contains("noun", pos_lower)
    THEN NounExamples(bisaya, tagalog, english)
    ELSE
    IF (Contains("adjective", pos_lower) \/ Contains("adj", pos_lower))
    THEN AdjectiveExamples(bisaya, tagalog, english)
    ELSE
    IF (Contains("number", pos_lower) \/ ContainsAny(<<"usa", "duha", "tulo", "upat", "lima">>, bisaya_lower))
    THEN NumberExamples(bisaya, tagalog, english)
    ELSE
    IF (Contains("question", pos_lower) \/ ContainsAny(<<"asa", "unsa", "kamus-a", "ngano">>, bisaya_lower))
    THEN QuestionExamples(bisaya, tagalog, english)
    ELSE
    DefaultExamples(bisaya, tagalog, english)

\* generate_examples, the cascade of rule groups (lines 28-347).
generate_examples(bisaya, tagalog, english, pos) ==
    LET bisaya_lower == Lower(bisaya)
        pos_lower == Lower(pos)
    IN
    IF InList(pos_lower, <<"greeting", "expression", "response">>)
    THEN GreetingExamples(bisaya, tagalog, english)
    ELSE
    IF (Contains("verb", pos_lower) \/ ContainsAny(<<"mokaon", "matulog", "mobasa", "mosulat", "mopalit">>, bisaya_lower))
    THEN VerbExamples(bisaya, tagalog, english)
    ELSE
    IF Contains("noun", pos_lower)
    THEN NounExamples(bisaya, tagalog, english)
    ELSE
    IF (Contains("adjective", pos_lower) \/ Contains("adj", pos_lower))
    THEN AdjectiveExamples(bisaya, tagalog, english)
    ELSE
    IF (Contains("number", pos_lower) \/ ContainsAny(<<"usa", "duha", "tulo", "upat", "lima">>, bisaya_lower))
    THEN NumberExamples(bisaya, tagalog, english)
    ELSE
    IF (Contains("time", pos_lower) \/ ContainsAny(<<"karon", "ugma", "gahapon", "adlaw">>, bisaya_lower))
    THEN TimeExamples(bisaya, tagalog, english)
    ELSE
    IF (Contains("question", pos_lower) \/ ContainsAny(<<"asa", "unsa", "kamus-a", "ngano">>, bisaya_lower))
    THEN QuestionExamples(bisaya, tagalog, english)
    ELSE
    DefaultExamples(bisaya, tagalog, english)

\* A generator whose templates follow the category it is handed.
GenerateExamples_ByCategory(bisaya, tagalog, english, pos, category) ==
    IF category # ""
    THEN DefaultExamples(bisaya, tagalog, english)
    ELSE generate_examples(bisaya, tagalog, english, pos)

\* generate_examples as it is called (line 28): the fifth parameter,
\* category, defaults to '' and is read nowhere in the body (lines 35-347).
GenerateExamples(bisaya, tagalog, english, pos, category) ==
    generate_examples(bisaya, tagalog, english, pos)

\* A determine_category that lets the noun test win over the verb test.
determine_category_NounBeforeVerb(pos, english) ==
    LET pos_lower == Lower(pos)
        english_lower == Lower(english)
    IN
    IF Contains("greeting", pos_lower)
    THEN
        "Greetings"
    ELSE
    IF (Contains("expression", pos_lower) \/ Contains("response", pos_lower))
    THEN
        "Common Phrases"
    ELSE
    IF Contains("number", pos_lower)
    THEN
        "Numbers"
    ELSE
    IF Contains("verb", pos_lower) /\ ~Contains("noun", pos_lower)
    THEN
        IF ContainsAny(<<"eat", "drink", "cook", "food">>, english_lower)
        THEN
            "Food & Dining"
        ELSE
        IF ContainsAny(<<"buy", "sell", "market", "shop">>, english_lower)
        THEN
            "Market/Shopping"
        ELSE
            "Actions"
    ELSE
    IF Contains("noun", pos_lower)
    THEN
        IF ContainsAny(<<"father", "mother", "family", "brother", "sister">>, english_lower)
        THEN
            "Family"
        ELSE
        IF ContainsAny(<<"food", "water", "rice", "bread", "fruit">>, english_lower)
        THEN
            "Food & Dining"
        ELSE
        IF ContainsAny(<<"house", "room", "door", "window">>, english_lower)
        THEN
            "Home & Living"
        ELSE
        IF ContainsAny(<<"book", "school", "student", "teacher">>, english_lower)
        THEN
            "Education"
        ELSE
            "Common Nouns"
    ELSE
    IF Contains("adjective", pos_lower)
    THEN
        "Descriptions"
    ELSE
    IF (Contains("time", pos_lower) \/ ContainsAny(<<"now", "today", "tomorrow", "yesterday", "day", "month", "year">>, english_lower))
    THEN
        "Time"
    ELSE
    IF Contains("question", pos_lower)
    THEN
        "Questions"
    ELSE
        "Uncategorized"

\* determine_category (lines 349-385).
determine_category(pos, english) ==
    LET pos_lower == Lower(pos)
        english_lower == Lower(english)
    IN
    IF Contains("greeting", pos_lower)
    THEN
        "Greetings"
    ELSE
    IF (Contains("expression", pos_lower) \/ Contains("response", pos_lower))
    THEN
        "Common Phrases"
    ELSE
    IF Contains("number", pos_lower)
    THEN
        "Numbers"
    ELSE
    IF Contains("verb", pos_lower)
    THEN
        IF ContainsAny(<<"eat", "drink", "cook", "food">>, english_lower)
        THEN
            "Food & Dining"
        ELSE
        IF ContainsAny(<<"buy", "sell", "market", "shop">>, english_lower)
        THEN
            "Market/Shopping"
        ELSE
            "Actions"
    ELSE
    IF Contains("noun", pos_lower)
    THEN
        IF ContainsAny(<<"father", "mother", "family", "brother", "sister">>, english_lower)
        THEN
            "Family"
        ELSE
        IF ContainsAny(<<"food", "water", "rice", "bread", "fruit">>, english_lower)
        THEN
            "Food & Dining"
        ELSE
        IF ContainsAny(<<"house", "room", "door", "window">>, english_lower)
        THEN
            "Home & Living"
        ELSE
        IF ContainsAny(<<"book", "school", "student", "teacher">>, english_lower)
        THEN
            "Education"
        ELSE
            "Common Nouns"
    ELSE
    IF Contains("adjective", pos_lower)
    THEN
        "Descriptions"
    ELSE
    IF (Contains("time", pos_lower) \/ ContainsAny(<<"now", "today", "tomorrow", "yesterday", "day", "month", "year">>, english_lower))
    THEN
        "Time"
    ELSE
    IF Contains("question", pos_lower)
    THEN
        "Questions"
    ELSE
        "Uncategorized"

(***************************************************************************)
(* regenerate_dataset.py: main, the batch loop and the dataset writer       *)
(***************************************************************************)

\* Bounds of the model.
MaxEntries == 2
MaxRuns == 2
MaxClock == 1

\* The runs of main that may share the file system, and the one that runs
\* alone in the sequential specification.
Procs == {1, 2}
Runners == {1}

\* main, lines 389-392: the paths.
metadata_path == "assets/models/bisaya_metadata.json"
output_path == "lib/vocdataset/bisaya_dataset.csv"
backup_path == output_path \o ".backup"
TempPath(now) == "lib/vocdataset/bisaya_dataset_" \o ToString(now) \o ".csv"

\* main, lines 403-419: the header row.
Header ==
    <<"Bisaya", "Tagalog", "English", "Part of Speech", "Pronunciation", "Category",
      "Beginner Example (Bisaya)", "Beginner English Translation",
      "Beginner Tagalog Translation", "Intermediate Example (Bisaya)",
      "Intermediate English Translation", "Intermediate Tagalog Translation",
      "Advanced Example (Bisaya)", "Advanced English Translation",
      "Advanced Tagalog Translation">>

\* One record of the 'metadata' list of the JSON file.  keys is the set of
\* keys the JSON object has; nonstr the keys whose value is a truthy JSON
\* value that is not a string (a number, say), the field then holding its
\* text.
Keys == {"bisaya", "tagalog", "english", "pronunciation", "pos"}
Entry(keys, nonstr, bisaya, tagalog, english, pos, pronunciation) ==
    [keys |-> keys, nonstr |-> nonstr, bisaya |-> bisaya, tagalog |-> tagalog,
     english |-> english, pos |-> pos, pronunciation |-> pronunciation]

\* The entries the metadata files of the model are made of.
EntryPool ==
    { Entry(Keys, {}, "Salamat", "Salamat", "Thank you", "Greeting", "sa-LA-mat"),
      Entry(Keys \ {"tagalog", "pos"}, {}, "Iring", "", "cat / kitty", "", ""),
      Entry(Keys, {}, "Tubig", "Tubig", "", "Noun", "TU-big"),
      Entry(Keys \ {"bisaya"}, {}, "", "Salita", "word", "Noun", ""),
      Entry(Keys, {"tagalog"}, "Lakaw", "5", "walk", "Verb", ""),
      Entry(Keys, {"pos"}, "Kaon", "Kain", "eat", "7", "") }

MetadataChoices == UNION {[1..n -> EntryPool] : n \in 0..MaxEntries}

\* dict.get(key, default)
Get(e, key, default) == IF key \in e.keys THEN e[key] ELSE default

\* Python truthiness of the value of a key: a non-string value of the model
\* is truthy, a string is truthy when it is not empty.
Truthy(e, key, default) == key \in e.nonstr \/ Get(e, key, default) # ""

\* The names bound at module level of regenerate_dataset.py: its imports and
\* its top-level functions.  make_example is local to generate_examples.
ModuleNames ==
    {"json", "csv", "os", "re", "Dict", "List", "Tuple", "load_metadata",
     "get_base_form", "generate_examples", "determine_category", "main"}

\* determine_category raises AttributeError on pos.lower() or english.lower()
\* when the value is not a string (lines 351-352).
CategoryRaises(e) == "pos" \in e.nonstr \/ "english" \in e.nonstr

\* generate_examples raises AttributeError on bisaya.lower() or tagalog.lower()
\* when the value is not a string (lines 35-38).
GenerateRaises(e) == "bisaya" \in e.nonstr \/ "tagalog" \in e.nonstr

\* The generic fallback templates of the except handler (lines 440-444).
FallbackExamples(bisaya, tagalog, english) ==
    LET eng_clean == Strip(SplitFirst(SplitFirst(english, "/"), "("))
        tag_clean == IF tagalog # "" THEN tagalog ELSE ""
    IN <<make_example(bisaya \o ".", eng_clean \o ".",
                      IF tag_clean # "" THEN tag_clean \o "." ELSE ""),
         make_example(bisaya \o ", mahimo ba?", eng_clean \o ", is it possible?",
                      IF tag_clean # "" THEN tag_clean \o ", posible ba?" ELSE ""),
         make_example(bisaya \o ", mahimo ba nimo ko tabangan?",
                      eng_clean \o ", can you help me?",
                      IF tag_clean # "" THEN tag_clean \o ", maaari mo ba akong tulungan?"
                      ELSE "")>>

\* The except handler of main (lines 438-444): it calls make_example, a name
\* main can only resolve at module level.
ExceptHandler(bisaya, tagalog, english) ==
    IF "make_example" \in ModuleNames
    THEN [error |-> "", examples |-> FallbackExamples(bisaya, tagalog, english)]
    ELSE [error |-> "NameError", examples |-> <<>>]

\* A row that carries the second it was generated in.
Row_Timestamped(bisaya, tagalog, english, pos, pronunciation, category, examples) ==
    <<bisaya, tagalog, english, pos, pronunciation \o ToString(clock), category,
      examples[1][1], examples[1][2], examples[1][3],
      examples[2][1], examples[2][2], examples[2][3],
      examples[3][1], examples[3][2], examples[3][3]>>

\* main, lines 451-467: the row of one entry.
Row(bisaya, tagalog, english, pos, pronunciation, category, examples) ==
    <<bisaya, tagalog, english, pos, pronunciation, category,
      examples[1][1], examples[1][2], examples[1][3],
      examples[2][1], examples[2][2], examples[2][3],
      examples[3][1], examples[3][2], examples[3][3]>>

\* The loop body with the test of line 429 reduced to `if not bisaya`.
ProcessEntry_KeepsEmptyEnglish(e) ==
    LET bisaya == Get(e, "bisaya", "")
        tagalog == Get(e, "tagalog", "")
        english == Get(e, "english", "")
        pronunciation == Get(e, "pronunciation", "")
        pos == Get(e, "pos", "Unknown")
    IN IF ~Truthy(e, "bisaya", "")
       THEN [kind |-> "skip", error |-> "", row |-> <<>>]
       ELSE IF CategoryRaises(e) \/ GenerateRaises(e)
       THEN [kind |-> "raise", error |-> "AttributeError", row |-> <<>>]
       ELSE [kind |-> "row", error |-> "",
             row |-> Row(bisaya, tagalog, english, pos, pronunciation,
                         determine_category(pos, english),
                         GenerateExamples(bisaya, tagalog, english, pos,
                                          determine_category(pos, english)))]

\* main, lines 423-467: the loop body for one entry.  The result is a skip,
\* a row, or the exception that leaves main.
ProcessEntry(e) ==
    LET bisaya == Get(e, "bisaya", "")
        tagalog == Get(e, "tagalog", "")
        english == Get(e, "english", "")
        pronunciation == Get(e, "pronunciation", "")
        pos == Get(e, "pos", "Unknown")
    IN IF ~Truthy(e, "bisaya", "") \/ ~Truthy(e, "english", "")
       THEN [kind |-> "skip", error |-> "", row |-> <<>>]
       ELSE IF CategoryRaises(e)
       THEN [kind |-> "raise", error |-> "AttributeError", row |-> <<>>]
       ELSE LET category == determine_category(pos, english)
                handled == ExceptHandler(bisaya, tagalog, english)
            IN IF ~GenerateRaises(e)
               THEN [kind |-> "row", error |-> "",
                     row |-> Row(bisaya, tagalog, english, pos, pronunciation, category,
                                 GenerateExamples(bisaya, tagalog, english, pos,
                                                  category))]
               ELSE IF handled.error # ""
               THEN [kind |-> "raise", error |-> handled.error, row |-> <<>>]
               ELSE [kind |-> "row", error |-> "",
                     row |-> Row(bisaya, tagalog, english, pos, pronunciation, category,
                                 handled.examples)]

\* The JSON metadata file: whether it is there, the exception reading it
\* raises ('' when it reads well), and the 'metadata' list it holds.
MetadataFile(m) == [exists |-> TRUE, fault |-> "", metadata |-> m]
NoMetadataFile == [exists |-> FALSE, fault |-> "", metadata |-> <<>>]
\* A file open() is refused on, and one json.load() cannot parse.
UnreadableMetadataFiles ==
    {[exists |-> TRUE, fault |-> f, metadata |-> <<>>] :
        f \in {"PermissionError", "JSONDecodeError"}}

\* Rows of datasets left by earlier runs.
OldRow(word) ==
    <<word, word, word, "Noun", "", "Common Nouns", word, word, word, word, word, word,
      word, word, word>>
OldDataset == <<Header, OldRow("daan")>>
OlderDataset == <<Header, OldRow("karaan"), OldRow("daan")>>

\* A file system with the file at path created or replaced.
WithFile(files, path, rows) ==
    [q \in DOMAIN files \cup {path} |-> IF q = path THEN rows ELSE files[q]]

\* A file system without the file at path.
WithoutFile(files, path) == [q \in DOMAIN files \ {path} |-> files[q]]

EmptyFs == [q \in {} |-> <<>>]

InitMain ==
    /\ metadata_file \in
           {NoMetadataFile} \cup UnreadableMetadataFiles
               \cup {MetadataFile(m) : m \in MetadataChoices}
    /\ fs \in { EmptyFs,
                WithFile(EmptyFs, output_path, OldDataset),
                WithFile(WithFile(EmptyFs, output_path, OldDataset), backup_path,
                         OlderDataset) }
    /\ clock = 0
    /\ pc = [p \in Procs |-> "idle"]
    /\ metadata = [p \in Procs |-> <<>>]
    /\ idx = [p \in Procs |-> 1]
    /\ csv_data = [p \in Procs |-> <<>>]
    /\ temp_path = [p \in Procs |-> ""]
    /\ error = [p \in Procs |-> ""]
    /\ runs = [p \in Procs |-> 0]
    /\ fs_before = [p \in Procs |-> EmptyFs]
    /\ written = <<>>

Ended(p) == pc[p] \in {"idle", "done", "kept_temp", "crashed"}

\* main with the dataset file opened for writing before the metadata is read.
\* A main that waits until no other run is in progress.
Start_WaitsForOtherRuns(p) ==
    /\ \A q \in Procs \ {p} : Ended(q)
    /\ Ended(p)
    /\ runs[p] < MaxRuns
    /\ runs' = [runs EXCEPT ![p] = @ + 1]
    /\ fs_before' = [fs_before EXCEPT ![p] = fs]
    /\ temp_path' = [temp_path EXCEPT ![p] = TempPath(clock)]
    /\ idx' = [idx EXCEPT ![p] = 1]
    /\ IF metadata_file.exists /\ metadata_file.fault = ""
       THEN /\ metadata' = [metadata EXCEPT ![p] = metadata_file.metadata]
            /\ csv_data' = [csv_data EXCEPT ![p] = <<Header>>]
            /\ pc' = [pc EXCEPT ![p] = "loop"]
            /\ error' = [error EXCEPT ![p] = ""]
       ELSE /\ metadata' = [metadata EXCEPT ![p] = <<>>]
            /\ csv_data' = [csv_data EXCEPT ![p] = <<>>]
            /\ pc' = [pc EXCEPT ![p] = "crashed"]
            /\ error' = [error EXCEPT ![p] =
                             IF metadata_file.exists THEN metadata_file.fault
                             ELSE "FileNotFoundError"]
    /\ UNCHANGED notMain
    /\ UNCHANGED <<metadata_file, fs, clock, written>>

Start_TruncatesDataset(p) ==
    /\ Ended(p)
    /\ runs[p] < MaxRuns
    /\ runs' = [runs EXCEPT ![p] = @ + 1]
    /\ fs_before' = [fs_before EXCEPT ![p] = fs]
    /\ temp_path' = [temp_path EXCEPT ![p] = TempPath(clock)]
    /\ idx' = [idx EXCEPT ![p] = 1]
    /\ fs' = WithFile(fs, output_path, <<>>)
    /\ IF metadata_file.exists /\ metadata_file.fault = ""
       THEN /\ metadata' = [metadata EXCEPT ![p] = metadata_file.metadata]
            /\ csv_data' = [csv_data EXCEPT ![p] = <<Header>>]
            /\ pc' = [pc EXCEPT ![p] = "loop"]
            /\ error' = [error EXCEPT ![p] = ""]
       ELSE /\ metadata' = [metadata EXCEPT ![p] = <<>>]
            /\ csv_data' = [csv_data EXCEPT ![p] = <<>>]
            /\ pc' = [pc EXCEPT ![p] = "crashed"]
            /\ error' = [error EXCEPT ![p] = "FileNotFoundError"]
    /\ UNCHANGED notMain
    /\ UNCHANGED <<metadata_file, clock, written>>

\* main, lines 389-419: the paths, load_metadata, the header row.  A missing
\* metadata file makes open() raise FileNotFoundError, an unreadable one makes
\* open() or json.load() raise; nothing catches either.
Start(p) ==
    /\ Ended(p)
    /\ runs[p] < MaxRuns
    /\ runs' = [runs EXCEPT ![p] = @ + 1]
    /\ fs_before' = [fs_before EXCEPT ![p] = fs]
    /\ temp_path' = [temp_path EXCEPT ![p] = TempPath(clock)]
    /\ idx' = [idx EXCEPT ![p] = 1]
    /\ IF metadata_file.exists /\ metadata_file.fault = ""
       THEN /\ metadata' = [metadata EXCEPT ![p] = metadata_file.metadata]
            /\ csv_data' = [csv_data EXCEPT ![p] = <<Header>>]
            /\ pc' = [pc EXCEPT ![p] = "loop"]
            /\ error' = [error EXCEPT ![p] = ""]
       ELSE /\ metadata' = [metadata EXCEPT ![p] = <<>>]
            /\ csv_data' = [csv_data EXCEPT ![p] = <<>>]
            /\ pc' = [pc EXCEPT ![p] = "crashed"]
            /\ error' = [error EXCEPT ![p] =
                             IF metadata_file.exists THEN metadata_file.fault
                             ELSE "FileNotFoundError"]
    /\ UNCHANGED notMain
    /\ UNCHANGED <<metadata_file, fs, clock, written>>

\* A loop that leaves out a row equal to one it has already generated.
LoopEntry_DropsDuplicates(p) ==
    /\ pc[p] = "loop"
    /\ idx[p] <= Len(metadata[p])
    /\ LET r == ProcessEntry(metadata[p][idx[p]])
           seen == \E k \in 1..Len(csv_data[p]) : csv_data[p][k] = r.row
       IN IF r.kind = "raise"
          THEN /\ pc' = [pc EXCEPT ![p] = "crashed"]
               /\ error' = [error EXCEPT ![p] = r.error]
               /\ UNCHANGED <<idx, csv_data>>
          ELSE /\ csv_data' = [csv_data EXCEPT ![p] =
                                   IF r.kind = "row" /\ ~seen THEN Append(@, r.row) ELSE @]
               /\ idx' = [idx EXCEPT ![p] = @ + 1]
               /\ UNCHANGED <<pc, error>>
    /\ UNCHANGED notMain
    /\ UNCHANGED <<metadata_file, fs, clock, metadata, temp_path, runs, fs_before, written>>

\* main, lines 422-470: one iteration of the loop over the metadata.
LoopEntry(p) ==
    /\ pc[p] = "loop"
    /\ idx[p] <= Len(metadata[p])
    /\ LET r == ProcessEntry(metadata[p][idx[p]])
       IN IF r.kind = "raise"
          THEN /\ pc' = [pc EXCEPT ![p] = "crashed"]
               /\ error' = [error EXCEPT ![p] = r.error]
               /\ UNCHANGED <<idx, csv_data>>
          ELSE /\ csv_data' = [csv_data EXCEPT ![p] =
                                   IF r.kind = "row" THEN Append(@, r.row) ELSE @]
               /\ idx' = [idx EXCEPT ![p] = @ + 1]
               /\ UNCHANGED <<pc, error>>
    /\ UNCHANGED notMain
    /\ UNCHANGED <<metadata_file, fs, clock, metadata, temp_path, runs, fs_before, written>>

\* main, lines 472-476: the loop is over, all rows are written to the temp file.
WriteTemp(p) ==
    /\ pc[p] = "loop"
    /\ idx[p] > Len(metadata[p])
    /\ fs' = WithFile(fs, temp_path[p], csv_data[p])
    /\ written' = Append(written, [metadata |-> metadata[p], rows |-> csv_data[p]])
    /\ pc' = [pc EXCEPT ![p] = "exists_output"]
    /\ UNCHANGED notMain
    /\ UNCHANGED <<metadata_file, clock, metadata, idx, csv_data, temp_path, error, runs,
                   fs_before>>

\* main, line 481: os.path.exists(output_path).
CheckOutput(p) ==
    /\ pc[p] = "exists_output"
    /\ pc' = [pc EXCEPT ![p] = IF output_path \in DOMAIN fs THEN "exists_backup" ELSE "move"]
    /\ UNCHANGED notMain
    /\ UNCHANGED <<metadata_file, fs, clock, metadata, idx, csv_data, temp_path, error, runs,
                   fs_before, written>>

\* main, line 484: os.path.exists(backup_path).
CheckBackup(p) ==
    /\ pc[p] = "exists_backup"
    /\ pc' = [pc EXCEPT ![p] = IF backup_path \in DOMAIN fs THEN "remove" ELSE "copy"]
    /\ UNCHANGED notMain
    /\ UNCHANGED <<metadata_file, fs, clock, metadata, idx, csv_data, temp_path, error, runs,
                   fs_before, written>>

\* A file operation of the try block (lines 480-491) on the file `needed`.
\* It raises FileNotFoundError, which main does not catch, when the file is
\* not there; it raises PermissionError, which main catches (lines 492-495),
\* when another program holds a file it touches, and then changes nothing;
\* otherwise the files become `after` and the run goes on at `next`.
FileOp(p, needed, after, next) ==
    /\ IF needed \notin DOMAIN fs
       THEN /\ pc' = [pc EXCEPT ![p] = "crashed"]
            /\ error' = [error EXCEPT ![p] = "FileNotFoundError"]
            /\ fs' = fs
       ELSE \E denied \in BOOLEAN :
                IF denied
                THEN /\ pc' = [pc EXCEPT ![p] = "kept_temp"]
                     /\ error' = error
                     /\ fs' = fs
                ELSE /\ pc' = [pc EXCEPT ![p] = next]
                     /\ error' = error
                     /\ fs' = after
    /\ UNCHANGED notMain
    /\ UNCHANGED <<metadata_file, clock, metadata, idx, csv_data, temp_path, runs, fs_before,
                   written>>

\* os.remove called on output_path instead of backup_path.
RemoveBackup_WrongPath(p) ==
    /\ pc[p] = "remove"
    /\ FileOp(p, output_path, WithoutFile(fs, output_path), "copy")

\* main, line 485: os.remove(backup_path).
RemoveBackup(p) ==
    /\ pc[p] = "remove"
    /\ FileOp(p, backup_path, WithoutFile(fs, backup_path), "copy")

\* main, line 486: shutil.copy2(output_path, backup_path).
CopyBackup(p) ==
    /\ pc[p] = "copy"
    /\ FileOp(p, output_path,
              IF output_path \in DOMAIN fs
              THEN WithFile(fs, backup_path, fs[output_path]) ELSE fs,
              "move")

\* The rows written straight onto the dataset file: it is truncated before
\* the lock is noticed.
MoveTemp_TruncatesFirst(p) ==
    /\ pc[p] = "move"
    /\ \E denied \in BOOLEAN :
           IF denied
           THEN /\ pc' = [pc EXCEPT ![p] = "kept_temp"]
                /\ fs' = WithFile(fs, output_path, <<>>)
           ELSE /\ pc' = [pc EXCEPT ![p] = "done"]
                /\ fs' = WithoutFile(WithFile(fs, output_path, fs[temp_path[p]]),
                                     temp_path[p])
    /\ UNCHANGED notMain
    /\ UNCHANGED <<metadata_file, clock, metadata, idx, csv_data, temp_path, error, runs,
                   fs_before, written>>

\* shutil.copy2 in the place of shutil.move: the temp file stays.
MoveTemp_Copies(p) ==
    /\ pc[p] = "move"
    /\ FileOp(p, temp_path[p],
              IF temp_path[p] \in DOMAIN fs
              THEN WithFile(fs, output_path, fs[temp_path[p]]) ELSE fs,
              "done")

\* main, line 490: shutil.move(temp_path, output_path).
MoveTemp(p) ==
    /\ pc[p] = "move"
    /\ FileOp(p, temp_path[p],
              IF temp_path[p] \in DOMAIN fs
              THEN WithoutFile(WithFile(fs, output_path, fs[temp_path[p]]), temp_path[p])
              ELSE fs,
              "done")

\* A second passes on the clock main reads for the temp file name.
Tick ==
    /\ clock < MaxClock
    /\ clock' = clock + 1
    /\ UNCHANGED notMain
    /\ UNCHANGED <<metadata_file, fs, pc, metadata, idx, csv_data, temp_path, error, runs,
                   fs_before, written>>

MainStep(p) ==
    \/ Start(p)
    \/ LoopEntry(p)
    \/ WriteTemp(p)
    \/ CheckOutput(p)
    \/ CheckBackup(p)
    \/ RemoveBackup(p)
    \/ CopyBackup(p)
    \/ MoveTemp(p)

(***************************************************************************)
(* A single call of generate_examples on arguments drawn from small sets    *)
(***************************************************************************)

GenBisaya ==
    {"Salamat", "DAGHANG SALAMAT", "Kumusta, salamat", "Maayong buntag", "Palihug",
     "Salamat, palihug", "Pasaylo", "Oo", "Dili", "Amping", "Kini", "Sa balay", "Karon",
     "Mokaon", "Iring", "Unsa", "Maayong", "Adlaw", "Duha", ""}
GenTagalog == {"", "Salamat", "Ito"}
GenEnglish == {"Thank you", "this / that", "at home (inside)", "eat", "now", "/ hello",
               "(informal) hi", "b", "to buy", "father", "House", "book", "carry"}
GenPos == {"Greeting", "expression", "Response", "Noun", "Verb", "Adjective", "Pronoun",
           "Unknown", "", "Particle", "Noun/Verb", "Number", "Time", "Question word"}

\* No category yet: determine_category has not been called.
NoCategory == ""

NoArgs == [bisaya |-> "", tagalog |-> "", english |-> "", pos |-> ""]

InitGen ==
    /\ gen_args \in [bisaya : GenBisaya, tagalog : GenTagalog, english : GenEnglish,
                     pos : GenPos]
    /\ gen_result = <<>>
    /\ gen_pc = "ready"
    /\ gen_category = NoCategory

IdleGen ==
    /\ gen_args = NoArgs
    /\ gen_result = <<>>
    /\ gen_pc = "idle"
    /\ gen_category = NoCategory

IdleMain ==
    /\ metadata_file = NoMetadataFile
    /\ fs = EmptyFs
    /\ clock = 0
    /\ pc = [p \in Procs |-> "idle"]
    /\ metadata = [p \in Procs |-> <<>>]
    /\ idx = [p \in Procs |-> 1]
    /\ csv_data = [p \in Procs |-> <<>>]
    /\ temp_path = [p \in Procs |-> ""]
    /\ error = [p \in Procs |-> ""]
    /\ runs = [p \in Procs |-> 0]
    /\ fs_before = [p \in Procs |-> EmptyFs]
    /\ written = <<>>

\* The call: generate_examples(bisaya, tagalog, english, pos).
GenerateCall ==
    /\ gen_pc = "ready"
    /\ gen_result' = generate_examples(gen_args.bisaya, gen_args.tagalog, gen_args.english,
                                       gen_args.pos)
    /\ gen_pc' = "returned"
    /\ UNCHANGED <<gen_args, gen_category>>
    /\ UNCHANGED notGen

\* The call that follows it in main for the same entry (lines 432-437):
\* determine_category(pos, english).
DetermineCategoryCall ==
    /\ gen_pc = "returned"
    /\ gen_category' = determine_category(gen_args.pos, gen_args.english)
    /\ gen_pc' = "categorised"
    /\ UNCHANGED <<gen_args, gen_result>>
    /\ UNCHANGED notGen

(***************************************************************************)
(* The training scripts                                                    *)
(***************************************************************************)

MaxRows == 3

\* vector_size of Word2Vec, and the length of the zero vector.
EmbeddingDim == 100
\* How many neighbours a word keeps.
TopN == 10

Variants == {"train_model", "train_json_model", "train_tflite_model", "train_tflite_colab"}
TFLiteVariants == {"train_tflite_model", "train_tflite_colab"}

\* A cell of the dataframe: pandas reads an empty cell as NaN.
NaN == [isna |-> TRUE, text |-> ""]
Cell(s) == [isna |-> FALSE, text |-> s]
\* str(cell)
PyStr(c) == IF c.isna THEN "nan" ELSE c.text
\* pd.notna(cell)
notna(c) == ~c.isna

DfRow(bisaya, tagalog, english) == [Bisaya |-> bisaya, Tagalog |-> tagalog, English |-> english]

\* The rows a dataset is made of here: a word, the same word in another case
\* and with a trailing blank, a phrase, another word, an empty Bisaya cell, and
\* the word 'Nan', which read_csv keeps as text.
RowPool ==
    { DfRow(Cell("Salamat"), Cell("Salamat"), Cell("Thanks")),
      DfRow(Cell("salamat "), NaN, NaN),
      DfRow(Cell("Maayong buntag"), NaN, NaN),
      DfRow(Cell("Iring"), NaN, NaN),
      DfRow(NaN, NaN, Cell("Thanks")),
      DfRow(Cell("Nan"), NaN, NaN) }

DataFrames == UNION {[1..n -> RowPool] : n \in 0..MaxRows}

\* A Python dict as the sequence of its items in insertion order.
Item(k, v) == [key |-> k, val |-> v]
EmptyDict == <<>>
HasKey(d, k) == \E i \in 1..Len(d) : d[i].key = k
DictGet(d, k) == d[CHOOSE i \in 1..Len(d) : d[i].key = k].val
\* d[k] = v: a new key goes last, a present key keeps its place.
DictSet(d, k, v) ==
    IF HasKey(d, k)
    THEN [i \in 1..Len(d) |-> IF d[i].key = k THEN Item(k, v) ELSE d[i]]
    ELSE Append(d, Item(k, v))
DictKeys(d) == [i \in 1..Len(d) |-> d[i].key]

RECURSIVE DictFromItems(_)
\* {w: s for w, s in items}
DictFromItems(items) ==
    IF items = <<>> THEN EmptyDict
    ELSE LET last == items[Len(items)]
         IN DictSet(DictFromItems(SubSeq(items, 1, Len(items) - 1)), last.key, last.val)

\* The sentences one cell gives to the training data: its lower-cased tokens,
\* unless there is none or the first is 'nan'.
SentenceOf(text) ==
    LET tokens == SplitWs(Lower(text))
    IN IF tokens # <<>> /\ tokens[1] # "nan" THEN <<tokens>> ELSE <<>>

\* The same in train_tflite_colab: the whole lower-cased, stripped text is
\* compared with 'nan'.
SentenceOfColab(text) ==
    LET t == Strip(Lower(text))
    IN IF t # "" /\ t # "nan" /\ SplitWs(t) # <<>> THEN <<SplitWs(t)>> ELSE <<>>

RECURSIVE prepare_training_data(_, _)
prepare_training_data(v, d) ==
    IF d = <<>> THEN <<>>
    ELSE LET row == Head(d)
             guarded == IF notna(row.Tagalog) THEN PyStr(row.Tagalog) ELSE ""
         IN (CASE v = "train_tflite_colab" ->
                    SentenceOfColab(PyStr(row.Bisaya)) \o SentenceOfColab(guarded)
                        \o SentenceOfColab(PyStr(row.English))
               [] v = "train_json_model" ->
                    SentenceOf(PyStr(row.Bisaya)) \o SentenceOf(guarded)
                        \o SentenceOf(PyStr(row.English))
               [] OTHER ->
                    SentenceOf(PyStr(row.Bisaya)) \o SentenceOf(PyStr(row.Tagalog))
                        \o SentenceOf(PyStr(row.English)))
            \o prepare_training_data(v, Tail(d))

\* The vocabulary Word2Vec builds with min_count=1: every token of the
\* training data.
Vocabulary(training_data) ==
    UNION {{training_data[i][j] : j \in 1..Len(training_data[i])} : i \in 1..Len(training_data)}

\* A vector with a and b as its first two components and 0 elsewhere.
Vector(a, b) == [k \in 1..EmbeddingDim |-> IF k = 1 THEN a ELSE IF k = 2 THEN b ELSE 0]

\* The vectors training gives a token, here one of two.
TrainedVectors == {Vector(2, 0), Vector(-2, 2)}

\* np.zeros(n), [0.0] * n
zeros(n) == [k \in 1..n |-> 0]

RECURSIVE SumAt(_, _)
\* The sum of the k-th components of the vectors of vs.
SumAt(vs, k) == IF vs = <<>> THEN 0 ELSE Head(vs)[k] + SumAt(Tail(vs), k)

\* np.mean(vs, axis=0)
mean(vs) == [k \in 1..Len(vs[1]) |-> SumAt(vs, k) \div Len(vs)]

RECURSIVE DotUpTo(_, _, _)
DotUpTo(a, b, n) == IF n = 0 THEN 0 ELSE a[n] * b[n] + DotUpTo(a, b, n - 1)
Dot(a, b) == DotUpTo(a, b, Len(a))

\* cosine_similarity of two rows: their dot product over the product of their
\* norms, 0 when one of them is the zero vector.  The score is kept exactly, as
\* the signed square  num / den  of the cosine.
Cosine(a, b) ==
    LET d == Dot(a, b)
        na == Dot(a, a)
        nb == Dot(b, b)
    IN IF na = 0 \/ nb = 0 THEN [num |-> 0, den |-> 1]
       ELSE [num |-> (IF d < 0 THEN 0 - d * d ELSE d * d), den |-> na * nb]

\* x >= y on scores.
ScoreGeq(x, y) == x.num * y.den >= y.num * x.den

RECURSIVE InsertDesc(_, _)
\* item put after every item of s whose score is not smaller.
InsertDesc(s, item) ==
    IF s = <<>> THEN <<item>>
    ELSE IF ScoreGeq(Head(s).val, item.val) THEN <<Head(s)>> \o InsertDesc(Tail(s), item)
    ELSE <<item>> \o s

RECURSIVE SortDesc(_)
\* list.sort(key=score, reverse=True): by descending score, equal scores in
\* their original order.
SortDesc(s) ==
    IF s = <<>> THEN <<>>
    ELSE InsertDesc(SortDesc(SubSeq(s, 1, Len(s) - 1)), s[Len(s)])

\* s[:n]
Take(s, n) == SubSeq(s, 1, IF Len(s) < n THEN Len(s) ELSE n)

\* The row has a Bisaya word: str(cell).strip() is neither '' nor 'nan'.
HasBisaya(row) ==
    LET bisaya == Strip(PyStr(row.Bisaya))
    IN bisaya # "" /\ bisaya # "nan"

bisaya_lower(row) == Lower(Strip(PyStr(row.Bisaya)))

\* The vector of the first known token alone, not the mean.
Embedding_FirstTokenOnly(model, word) ==
    IF word \in DOMAIN model THEN model[word]
    ELSE LET words == SplitWs(word)
             Known(w) == w \in DOMAIN model
             known == SelectSeq(words, Known)
         IN IF known # <<>> THEN model[known[1]] ELSE zeros(EmbeddingDim)

\* The embedding of a lower-cased word: its trained vector, else the mean of
\* the vectors of its known tokens, else the zero vector.
Embedding(model, word) ==
    IF word \in DOMAIN model THEN model[word]
    ELSE LET words == SplitWs(word)
             Known(w) == w \in DOMAIN model
             known == SelectSeq(words, Known)
             word_embeddings == [i \in 1..Len(known) |-> model[known[i]]]
         IN IF word_embeddings # <<>> THEN mean(word_embeddings) ELSE zeros(EmbeddingDim)

RECURSIVE generate_embeddings(_, _)
\* train_model and train_json_model: the dict bisaya_lower -> embedding.
generate_embeddings(model, d) ==
    IF d = <<>> THEN EmptyDict
    ELSE LET row == d[Len(d)]
             before == generate_embeddings(model, SubSeq(d, 1, Len(d) - 1))
         IN IF HasBisaya(row)
            THEN DictSet(before, bisaya_lower(row), Embedding(model, bisaya_lower(row)))
            ELSE before

RECURSIVE generate_metadata(_, _)
\* The metadata generate_embeddings returns beside the embeddings, reduced to
\* the 'bisaya' field of a record.  train_json_model appends one record per
\* row to a list (lines 85-92); train_model stores the record in a dict under
\* bisaya_lower (train_model.py lines 98-104).
generate_metadata(v, d) ==
    IF d = <<>> THEN <<>>
    ELSE LET row == d[Len(d)]
             before == generate_metadata(v, SubSeq(d, 1, Len(d) - 1))
             record == [bisaya |-> Strip(PyStr(row.Bisaya))]
         IN IF ~HasBisaya(row) THEN before
            ELSE IF v = "train_model"
            THEN DictSet(before, bisaya_lower(row), record)
            ELSE Append(before, record)

\* save_model / export_to_json: the bundle written to bisaya_model.json; the
\* count field ('vocab_size' / 'total_words') is len(embeddings).
save_model(embeddings_dict, metadata_part, similarity_dict) ==
    [embeddings |-> embeddings_dict, metadata |-> metadata_part,
     similarity |-> similarity_dict, count |-> Len(embeddings_dict)]

RECURSIVE create_embedding_model(_, _)
\* The TFLite variants: word_to_index, keyed by bisaya_lower and holding the
\* row's position in the dataframe (from 0), and the list of embeddings.
create_embedding_model(model, d) ==
    IF d = <<>>
    THEN [word_to_index |-> EmptyDict, index_to_word |-> EmptyDict, embeddings_list |-> <<>>]
    ELSE LET row == d[Len(d)]
             before == create_embedding_model(model, SubSeq(d, 1, Len(d) - 1))
         IN IF HasBisaya(row)
            THEN [word_to_index |->
                      DictSet(before.word_to_index, bisaya_lower(row), Len(d) - 1),
                  index_to_word |->
                      DictSet(before.index_to_word, Len(d) - 1, bisaya_lower(row)),
                  embeddings_list |->
                      Append(before.embeddings_list, Embedding(model, bisaya_lower(row)))]
            ELSE before

\* save_metadata: the vocabulary part of bisaya_metadata.json.
save_metadata(w2i, i2w) ==
    [word_to_index |-> w2i, index_to_word |-> i2w, vocab_size |-> Len(w2i)]

\* The loop both calculate_similarity_matrix end with: for each word its
\* scores against the words at the other positions, sorted, cut, as a dict.
top_similar(words, vectors) ==
    LET Similarities(i) ==
            LET others == SelectSeq([j \in 1..Len(words) |-> j], LAMBDA j : j # i)
            IN [n \in 1..Len(others) |->
                    Item(words[others[n]], Cosine(vectors[i], vectors[others[n]]))]
        TopOf(i) == Item(words[i], DictFromItems(Take(SortDesc(Similarities(i)), TopN)))
    IN DictFromItems([i \in 1..Len(words) |-> TopOf(i)])

\* train_model and train_json_model: the words are the keys of the dict.
calculate_similarity_matrix(embeddings_dict) ==
    top_similar(DictKeys(embeddings_dict),
                [i \in 1..Len(embeddings_dict) |-> embeddings_dict[i].val])

\* The TFLite variants: the words are collected row by row, those in the
\* vocabulary only.
calculate_similarity_matrix_rows(model, d) ==
    LET InVocabulary(row) == HasBisaya(row) /\ bisaya_lower(row) \in DOMAIN model
        rows == SelectSeq(d, InVocabulary)
    IN top_similar([i \in 1..Len(rows) |-> bisaya_lower(rows[i])],
                   [i \in 1..Len(rows) |-> model[bisaya_lower(rows[i])]])

NoFiles == <<>>
\* The model file an earlier training left under assets/models.
OldModelFiles ==
    [f \in {"bisaya_model.json"} |-> save_model(EmptyDict, <<>>, EmptyDict)]
NoModel == <<>>

InitTrain ==
    /\ variant \in Variants
    /\ csv_exists \in BOOLEAN
    /\ train_error = ""
    /\ tf_available \in IF variant = "train_tflite_model" THEN BOOLEAN ELSE {TRUE}
    /\ drive_mountable \in IF variant = "train_tflite_colab" THEN BOOLEAN ELSE {TRUE}
    /\ df = <<>>
    /\ train_pc = "start"
    /\ wv = NoModel
    /\ embeddings = EmptyDict
    /\ embeddings_list = <<>>
    /\ word_to_index = EmptyDict
    /\ index_to_word = EmptyDict
    /\ similarity = EmptyDict
    /\ outputs \in IF csv_exists THEN {NoFiles} ELSE {NoFiles, OldModelFiles}
    /\ drive_files = NoFiles

IdleTrain ==
    /\ variant = "train_model"
    /\ csv_exists = FALSE
    /\ train_error = ""
    /\ tf_available = TRUE
    /\ drive_mountable = TRUE
    /\ df = <<>>
    /\ train_pc = "idle"
    /\ wv = NoModel
    /\ embeddings = EmptyDict
    /\ embeddings_list = <<>>
    /\ word_to_index = EmptyDict
    /\ index_to_word = EmptyDict
    /\ similarity = EmptyDict
    /\ outputs = NoFiles
    /\ drive_files = NoFiles

\* The files with one more file, or with that file rewritten.
WithOutput(files, name, content) ==
    [f \in DOMAIN files \cup {name} |-> IF f = name THEN content ELSE files[f]]

\* A main that goes on to load and train although mounting Drive failed.
MountDrive_GoesOnAfterFailure ==
    /\ variant = "train_tflite_colab"
    /\ train_pc = "start"
    /\ train_pc' = "mounted"
    /\ train_error' = IF drive_mountable THEN train_error ELSE "Drive mount failed"
    /\ UNCHANGED <<variant, csv_exists, tf_available, drive_mountable, df, wv,
                   embeddings, embeddings_list, word_to_index, index_to_word,
                   similarity, outputs, drive_files>>
    /\ UNCHANGED notTrain

\* train_tflite_colab.main, step 1 (lines 302-308): the mount of Google
\* Drive; when it raises, main prints the failure and returns.
MountDrive ==
    /\ variant = "train_tflite_colab"
    /\ train_pc = "start"
    /\ IF drive_mountable
       THEN train_pc' = "mounted" /\ train_error' = train_error
       ELSE train_pc' = "returned" /\ train_error' = "Drive mount failed"
    /\ UNCHANGED <<variant, csv_exists, tf_available, drive_mountable, df, wv,
                   embeddings, embeddings_list, word_to_index, index_to_word,
                   similarity, outputs, drive_files>>
    /\ UNCHANGED notTrain

\* A main that goes on to read the CSV without asking whether it is there.
LoadDataset_NoExistsCheck ==
    /\ train_pc = IF variant = "train_tflite_colab" THEN "mounted" ELSE "start"
    /\ IF csv_exists
       THEN /\ df' \in DataFrames
            /\ train_pc' = "loaded"
            /\ train_error' = train_error
       ELSE /\ df' = df
            /\ IF variant = "train_tflite_colab"
               THEN train_pc' = "returned" /\ train_error' = "FileNotFoundError"
               ELSE train_pc' = "crashed" /\ train_error' = "FileNotFoundError"
    /\ UNCHANGED <<variant, csv_exists, tf_available, drive_mountable, wv, embeddings,
                   embeddings_list, word_to_index, index_to_word, similarity, outputs,
                   drive_files>>
    /\ UNCHANGED notTrain

\* The start of main up to the loaded dataframe.  train_json_model asks
\* whether the CSV exists, prints an error and returns when it does not
\* (lines 153-157); in train_model and train_tflite_model reading a missing
\* CSV raises FileNotFoundError (pd.read_csv); train_tflite_colab raises it
\* itself (line 28), and its main catches it, prints it and returns (lines
\* 312-316).
LoadDataset ==
    /\ train_pc = IF variant = "train_tflite_colab" THEN "mounted" ELSE "start"
    /\ IF csv_exists
       THEN /\ df' \in DataFrames
            /\ train_pc' = "loaded"
            /\ train_error' = train_error
       ELSE /\ df' = df
            /\ IF variant = "train_json_model"
               THEN train_pc' = "returned" /\ train_error' = "Dataset not found"
               ELSE IF variant = "train_tflite_colab"
               THEN train_pc' = "returned" /\ train_error' = "FileNotFoundError"
               ELSE train_pc' = "crashed" /\ train_error' = "FileNotFoundError"
    /\ UNCHANGED <<variant, csv_exists, tf_available, drive_mountable, wv, embeddings,
                   embeddings_list, word_to_index, index_to_word, similarity, outputs,
                   drive_files>>
    /\ UNCHANGED notTrain

\* prepare_training_data and train_embeddings.  Word2Vec refuses to train on
\* an empty vocabulary (RuntimeError); otherwise every token gets a vector.
TrainEmbeddings ==
    /\ train_pc = "loaded"
    /\ LET training_data == prepare_training_data(variant, df)
       IN IF training_data = <<>>
          THEN train_pc' = "crashed" /\ wv' = wv /\ train_error' = "RuntimeError"
          ELSE /\ wv' \in [Vocabulary(training_data) -> TrainedVectors]
               /\ train_pc' = "trained"
               /\ train_error' = train_error
    /\ UNCHANGED <<variant, csv_exists, tf_available, drive_mountable, df, embeddings,
                   embeddings_list, word_to_index, index_to_word, similarity, outputs,
                   drive_files>>
    /\ UNCHANGED notTrain

\* train_model, train_json_model: generate_embeddings.
GenerateEmbeddings ==
    /\ train_pc = "trained"
    /\ variant \notin TFLiteVariants
    /\ embeddings' = generate_embeddings(wv, df)
    /\ train_pc' = "embedded"
    /\ UNCHANGED <<variant, csv_exists, train_error, tf_available, drive_mountable, df,
                   wv, embeddings_list, word_to_index, index_to_word, similarity,
                   outputs, drive_files>>
    /\ UNCHANGED notTrain

\* The TFLite variants: create_embedding_model.  After its loop over the rows
\* it builds the Keras model through the name tf (line 138): in
\* train_tflite_model that name is bound only when the import of lines 13-14
\* succeeded, whatever TENSORFLOW_AVAILABLE says, so without TensorFlow the
\* call ends with a NameError nothing catches.
CreateEmbeddingModel ==
    /\ train_pc = "trained"
    /\ variant \in TFLiteVariants
    /\ IF tf_available
       THEN LET r == create_embedding_model(wv, df)
            IN /\ word_to_index' = r.word_to_index
               /\ index_to_word' = r.index_to_word
               /\ embeddings_list' = r.embeddings_list
               /\ train_pc' = "model_built"
               /\ train_error' = train_error
       ELSE /\ train_pc' = "crashed"
            /\ train_error' = "NameError"
            /\ UNCHANGED <<word_to_index, index_to_word, embeddings_list>>
    /\ UNCHANGED <<variant, csv_exists, tf_available, drive_mountable, df, wv,
                   embeddings, similarity, outputs, drive_files>>
    /\ UNCHANGED notTrain

\* The TFLite variants: convert_to_tflite writes bisaya_model.tflite, the
\* embedding table.
ConvertToTflite ==
    /\ train_pc = "model_built"
    /\ outputs' = WithOutput(outputs, "bisaya_model.tflite", embeddings_list)
    /\ train_pc' = "converted"
    /\ UNCHANGED <<variant, csv_exists, train_error, tf_available, drive_mountable, df,
                   wv, embeddings, embeddings_list, word_to_index, index_to_word,
                   similarity, drive_files>>
    /\ UNCHANGED notTrain

\* The TFLite variants: save_metadata writes bisaya_metadata.json.
SaveMetadata ==
    /\ train_pc = "converted"
    /\ outputs' = WithOutput(outputs, "bisaya_metadata.json",
                             save_metadata(word_to_index, index_to_word))
    /\ train_pc' = "embedded"
    /\ UNCHANGED <<variant, csv_exists, train_error, tf_available, drive_mountable, df,
                   wv, embeddings, embeddings_list, word_to_index, index_to_word,
                   similarity, drive_files>>
    /\ UNCHANGED notTrain

\* train_model, train_json_model: calculate_similarity_matrix, then the one
\* JSON file with the embeddings, the metadata and the table.
CalculateSimilarity ==
    /\ train_pc = "embedded"
    /\ variant \notin TFLiteVariants
    /\ similarity' = calculate_similarity_matrix(embeddings)
    /\ outputs' = [f \in {"bisaya_model.json"} |->
                       save_model(embeddings, generate_metadata(variant, df), similarity')]
    /\ train_pc' = "done"
    /\ UNCHANGED <<variant, csv_exists, train_error, tf_available, drive_mountable, df,
                   wv, embeddings, embeddings_list, word_to_index, index_to_word,
                   drive_files>>
    /\ UNCHANGED notTrain

\* The TFLite variants: calculate_similarity_matrix, then the similarity
\* file.  train_tflite_model.main ends here; train_tflite_colab.main has
\* written its three files under /content and has the copy left to do.
CalculateSimilarityRows ==
    /\ train_pc = "embedded"
    /\ variant \in TFLiteVariants
    /\ similarity' = calculate_similarity_matrix_rows(wv, df)
    /\ outputs' = WithOutput(outputs, "bisaya_similarity.json", similarity')
    /\ train_pc' = IF variant = "train_tflite_colab" THEN "saved_local" ELSE "done"
    /\ UNCHANGED <<variant, csv_exists, train_error, tf_available, drive_mountable, df,
                   wv, embeddings, embeddings_list, word_to_index, index_to_word,
                   drive_files>>
    /\ UNCHANGED notTrain

\* train_tflite_colab: save_files_to_drive copies the three files to the
\* Drive folder.
SaveFilesToDrive ==
    /\ train_pc = "saved_local"
    /\ drive_files' = [f \in {"bisaya_model.tflite", "bisaya_metadata.json",
                               "bisaya_similarity.json"} |-> outputs[f]]
    /\ train_pc' = "done"
    /\ UNCHANGED <<variant, csv_exists, train_error, tf_available, drive_mountable, df,
                   wv, embeddings, embeddings_list, word_to_index, index_to_word,
                   similarity, outputs>>
    /\ UNCHANGED notTrain

TrainStep ==
    \/ MountDrive
    \/ LoadDataset
    \/ TrainEmbeddings
    \/ GenerateEmbeddings
    \/ CreateEmbeddingModel
    \/ ConvertToTflite
    \/ SaveMetadata
    \/ CalculateSimilarity
    \/ CalculateSimilarityRows
    \/ SaveFilesToDrive

(***************************************************************************)
(* update_examples_with_tagalog.py                                         *)
(***************************************************************************)

\* verb_patterns (lines 26-82): pairs of a regular expression and its replacement.
verb_patterns ==
    <<
       <<"beginner = 'Gusto ko mokaon\\. -> \\\"I want to eat\\.\\\"'",
         "beginner = make_example('Gusto ko mokaon.', 'I want to eat.', 'Gusto kong kumain.')">>,
       <<"intermediate = 'Nakaon na ba ka\\? -> \\\"Have you eaten already\\?\\\"'",
         "intermediate = make_example('Nakaon na ba ka?', 'Have you eaten already?', 'Kumain ka na ba?')">>,
       <<"advanced = 'Gikaon nako ang tinapay ganina\\. -> \\\"I ate the bread earlier\\.\\\"'",
         "advanced = make_example('Gikaon nako ang tinapay ganina.', 'I ate the bread earlier.', 'Kumain ako ng tinapay kanina.')">>,
       <<"beginner = 'Gusto ko matulog\\. -> \\\"I want to sleep\\.\\\"'",
         "beginner = make_example('Gusto ko matulog.', 'I want to sleep.', 'Gusto kong matulog.')">>,
       <<"intermediate = 'Natulog na ba ka\\? -> \\\"Have you slept already\\?\\\"'",
         "intermediate = make_example('Natulog na ba ka?', 'Have you slept already?', 'Natulog ka na ba?')">>,
       <<"advanced = 'Kinahanglan nga matulog ka aron makapahuway\\. -> \\\"You need to sleep to rest\\.\\\"'",
         "advanced = make_example('Kinahanglan nga matulog ka aron makapahuway.', 'You need to sleep to rest.', 'Kailangan mong matulog para makapahinga.')">>,
       <<"beginner = 'Gusto ko mobasa\\. -> \\\"I want to read\\.\\\"'",
         "beginner = make_example('Gusto ko mobasa.', 'I want to read.', 'Gusto kong magbasa.')">>,
       <<"intermediate = 'Nagbasa ko ug libro\\. -> \\\"I am reading a book\\.\\\"'",
         "intermediate = make_example('Nagbasa ko ug libro.', 'I am reading a book.', 'Nagbabasa ako ng libro.')">>,
       <<"advanced = 'Gibasa nako ang libro ganina\\. -> \\\"I read the book earlier\\.\\\"'",
         "advanced = make_example('Gibasa nako ang libro ganina.', 'I read the book earlier.', 'Binasa ko ang libro kanina.')">>,
       <<"beginner = 'Gusto ko mosulat\\. -> \\\"I want to write\\.\\\"'",
         "beginner = make_example('Gusto ko mosulat.', 'I want to write.', 'Gusto kong sumulat.')">>,
       <<"intermediate = 'Nagsulat ko ug sulat\\. -> \\\"I am writing a letter\\.\\\"'",
         "intermediate = make_example('Nagsulat ko ug sulat.', 'I am writing a letter.', 'Nagsusulat ako ng sulat.')">>,
       <<"advanced = 'Gisulat nako ang sulat kagahapon\\. -> \\\"I wrote the letter yesterday\\.\\\"'",
         "advanced = make_example('Gisulat nako ang sulat kagahapon.', 'I wrote the letter yesterday.', 'Sinulat ko ang sulat kahapon.')">>,
       <<"beginner = 'Gusto ko mopalit\\. -> \\\"I want to buy\\.\\\"'",
         "beginner = make_example('Gusto ko mopalit.', 'I want to buy.', 'Gusto kong bumili.')">>,
       <<"intermediate = 'Mopalit ko ug tinapay\\. -> \\\"I will buy bread\\.\\\"'",
         "intermediate = make_example('Mopalit ko ug tinapay.', 'I will buy bread.', 'Bibili ako ng tinapay.')">>,
       <<"advanced = 'Gipalit nako ang tinapay sa tindahan\\. -> \\\"I bought the bread at the store\\.\\\"'",
         "advanced = make_example('Gipalit nako ang tinapay sa tindahan.', 'I bought the bread at the store.', 'Binili ko ang tinapay sa tindahan.')">>,
       <<"beginner = 'Gusto ko molakaw\\. -> \\\"I want to walk\\.\\\"'",
         "beginner = make_example('Gusto ko molakaw.', 'I want to walk.', 'Gusto kong maglakad.')">>,
       <<"intermediate = 'Naglakaw ko sa dalan\\. -> \\\"I am walking on the road\\.\\\"'",
         "intermediate = make_example('Naglakaw ko sa dalan.', 'I am walking on the road.', 'Naglalakad ako sa kalsada.')">>,
       <<"advanced = 'Naglakaw ko gikan sa balay padulong sa eskwelahan\\. -> \\\"I walked from home to school\\.\\\"'",
         "advanced = make_example('Naglakaw ko gikan sa balay padulong sa eskwelahan.', 'I walked from home to school.', 'Naglalakad ako mula sa bahay papunta sa paaralan.')">>,
       <<"beginner = 'Gusto ko modagan\\. -> \\\"I want to run\\.\\\"'",
         "beginner = make_example('Gusto ko modagan.', 'I want to run.', 'Gusto kong tumakbo.')">>,
       <<"intermediate = 'Nagdagan ko sa parke\\. -> \\\"I am running in the park\\.\\\"'",
         "intermediate = make_example('Nagdagan ko sa parke.', 'I am running in the park.', 'Tumatakbo ako sa parke.')">>,
       <<"advanced = 'Nagdagan ko aron makab-ot ang bus\\. -> \\\"I ran to catch the bus\\.\\\"'",
         "advanced = make_example('Nagdagan ko aron makab-ot ang bus.', 'I ran to catch the bus.', 'Tumakbo ako para mahabol ang bus.')">>,
       <<"beginner = 'Moadto ko\\. -> \\\"I will go\\.\\\"'",
         "beginner = make_example('Moadto ko.', 'I will go.', 'Pupunta ako.')">>,
       <<"intermediate = 'Moadto ko sa balay\\. -> \\\"I will go to the house\\.\\\"'",
         "intermediate = make_example('Moadto ko sa balay.', 'I will go to the house.', 'Pupunta ako sa bahay.')">>,
       <<"advanced = 'Moadto ko sa balay sa akong higala\\. -> \\\"I will go to my friend\\'s house\\.\\\"'",
         "advanced = make_example('Moadto ko sa balay sa akong higala.', 'I will go to my friend's house.', 'Pupunta ako sa bahay ng aking kaibigan.')">>
    >>

RECURSIVE Literal(_)
\* The text a pattern matches: every pattern of verb_patterns is made of
\* ordinary characters and of escaped punctuation (a backslash and the
\* character, never a backslash itself), so it matches its own text without
\* the backslashes.  The text is put together from the two halves of the
\* pattern.
Literal(pattern) ==
    IF Len(pattern) <= 1
    THEN IF pattern = "\\" THEN "" ELSE pattern
    ELSE LET half == Len(pattern) \div 2
         IN Literal(SubSeq(pattern, 1, half))
                \o Literal(SubSeq(pattern, half + 1, Len(pattern)))

\* re.compile for each pattern of verb_patterns, as the re module does once
\* per pattern: the text it matches, with its replacement.
compiled_patterns ==
    [i \in 1..Len(verb_patterns) |->
        <<Literal(verb_patterns[i][1]), verb_patterns[i][2]>>]

RECURSIVE re_sub(_, _, _)
\* re.sub(pattern, repl, string) for a pattern that matches the text `text`
\* and a replacement without backslashes: every match, leftmost first and not
\* overlapping, is replaced.
re_sub(text, repl, string) ==
    LET starts == {k \in 1..(Len(string) - Len(text) + 1) :
                      SubSeq(string, k, k + Len(text) - 1) = text}
    IN IF starts = {} THEN string
       ELSE LET k == CHOOSE k \in starts : \A j \in starts : k <= j
            IN SubSeq(string, 1, k - 1) \o repl
                   \o re_sub(text, repl, SubSeq(string, k + Len(text), Len(string)))

RECURSIVE ApplyPatterns(_, _)
\* The loop of lines 84-85.
ApplyPatterns(patterns, content) ==
    IF patterns = <<>> THEN content
    ELSE ApplyPatterns(Tail(patterns),
                       re_sub(Head(patterns)[1], Head(patterns)[2], content))

MaxLines == 3

\* Lines regenerate_dataset.py can hold: examples in the old one-string form,
\* one already rewritten, one that differs from a pattern where the pattern
\* has an escaped dot, and lines that have nothing to do with the patterns.
LinePool ==
    {"            beginner = 'Moadto ko. -> \"I will go.\"'",
     "            beginner = make_example('Moadto ko.', 'I will go.', 'Pupunta ako.')",
     "            advanced = 'Moadto ko sa balay sa akong higala. -> \"I will go to my friend's house.\"'",
     "            beginner = 'Moadto ko! -> \"I will go.\"'",
     "        base = get_base_form(bisaya)",
     ""}

RECURSIVE JoinLines(_)
\* The text of a file of these lines, each ended by a newline.
JoinLines(lines) ==
    IF lines = <<>> THEN "" ELSE Head(lines) \o "\n" \o JoinLines(Tail(lines))

FileTexts ==
    {JoinLines(ls) : ls \in UNION {[1..n -> LinePool] : n \in 0..MaxLines}}

InitUpdate ==
    /\ upd_file \in FileTexts
    /\ upd_before = upd_file
    /\ upd_once = upd_file
    /\ upd_runs = "not run"

IdleUpdate ==
    /\ upd_file = ""
    /\ upd_before = ""
    /\ upd_once = ""
    /\ upd_runs = "idle"

\* A run whose replacements keep the old text in front of the new one.
UpdateExamples_KeepsOldText ==
    /\ upd_runs \in {"not run", "run once"}
    /\ LET content ==
               ApplyPatterns([i \in 1..Len(compiled_patterns) |->
                                 <<compiled_patterns[i][1],
                                   compiled_patterns[i][1] \o "  # "
                                       \o compiled_patterns[i][2]>>],
                             upd_file)
       IN /\ upd_file' = content
          /\ upd_once' = IF upd_runs = "not run" THEN content ELSE upd_once
    /\ upd_runs' = IF upd_runs = "not run" THEN "run once" ELSE "run twice"
    /\ UNCHANGED upd_before
    /\ UNCHANGED notUpdate

\* One run of the script (lines 9-89): read the file, apply every pattern in
\* turn to the whole text, write the text back.
UpdateExamples ==
    /\ upd_runs \in {"not run", "run once"}
    /\ LET content == ApplyPatterns(compiled_patterns, upd_file)
       IN /\ upd_file' = content
          /\ upd_once' = IF upd_runs = "not run" THEN content ELSE upd_once
    /\ upd_runs' = IF upd_runs = "not run" THEN "run once" ELSE "run twice"
    /\ UNCHANGED upd_before
    /\ UNCHANGED notUpdate

(***************************************************************************)
(* train_tflite_colab.load_dataset_from_drive                              *)
(***************************************************************************)

\* encodings, line 37.
encodings == <<"utf-8", "utf-8-sig", "latin-1", "iso-8859-1", "cp1252", "windows-1252">>

EncodingSet == {encodings[i] : i \in 1..Len(encodings)}

\* What pd.read_csv(csv_path, encoding=...) can do: return the data, raise
\* UnicodeDecodeError, or raise another exception.
ReadOutcomes == {"ok", "UnicodeDecodeError", "Exception"}

None == [isNone |-> TRUE]

\* The dataframe pd.read_csv returns under an encoding.
ReadCsv(encoding) == [isNone |-> FALSE, encoding |-> encoding]

InitLoad ==
    /\ load_exists \in BOOLEAN
    /\ load_outcome \in [EncodingSet -> ReadOutcomes]
    /\ load_pc = "start"
    /\ load_tried = <<>>
    /\ load_df = None
    /\ load_error = ""

IdleLoad ==
    /\ load_exists = FALSE
    /\ load_outcome = [e \in EncodingSet |-> "ok"]
    /\ load_pc = "idle"
    /\ load_tried = <<>>
    /\ load_df = None
    /\ load_error = ""

\* Lines 27-34: the existence check.
CheckCsvPath ==
    /\ load_pc = "start"
    /\ IF load_exists
       THEN load_pc' = "reading" /\ load_error' = load_error
       ELSE load_pc' = "raised" /\ load_error' = "FileNotFoundError"
    /\ UNCHANGED <<load_exists, load_outcome, load_tried, load_df>>
    /\ UNCHANGED notLoad

\* A loop that goes on to the next encoding after a successful read as well.
TryEncoding_NoBreak ==
    /\ load_pc = "reading"
    /\ Len(load_tried) < Len(encodings)
    /\ LET encoding == encodings[Len(load_tried) + 1]
       IN /\ load_tried' = Append(load_tried, encoding)
          /\ load_df' = IF load_outcome[encoding] = "ok" THEN ReadCsv(encoding) ELSE load_df
    /\ UNCHANGED <<load_exists, load_outcome, load_pc, load_error>>
    /\ UNCHANGED notLoad

\* Lines 40-48: one turn of the loop over the encodings.  A successful read
\* breaks out of the loop, and the function returns df (lines 50 and 57);
\* either kind of exception goes on to the next encoding.
TryEncoding ==
    /\ load_pc = "reading"
    /\ Len(load_tried) < Len(encodings)
    /\ LET encoding == encodings[Len(load_tried) + 1]
       IN /\ load_tried' = Append(load_tried, encoding)
          /\ IF load_outcome[encoding] = "ok"
             THEN load_df' = ReadCsv(encoding) /\ load_pc' = "returned"
             ELSE load_df' = load_df /\ load_pc' = load_pc
    /\ UNCHANGED <<load_exists, load_outcome, load_error>>
    /\ UNCHANGED notLoad

\* Lines 50-57: the loop ran out of encodings.
EndOfEncodings ==
    /\ load_pc = "reading"
    /\ Len(load_tried) = Len(encodings)
    /\ IF load_df = None
       THEN load_pc' = "raised" /\ load_error' = "ValueError"
       ELSE load_pc' = "returned" /\ load_error' = load_error
    /\ UNCHANGED <<load_exists, load_outcome, load_tried, load_df>>
    /\ UNCHANGED notLoad

LoadStep ==
    \/ CheckCsvPath
    \/ TryEncoding
    \/ EndOfEncodings

(***************************************************************************)
(* Specifications                                                          *)
(***************************************************************************)

Init == InitMain /\ IdleGen /\ IdleTrain /\ IdleUpdate /\ IdleLoad

Next ==
    \/ \E p \in Runners : MainStep(p)
    \/ Tick

\* One process runs main, again and again, alone on the file system.
Spec == Init /\ [][Next]_vars

\* Two invocations of the script run side by side on the same directory:
\* nothing in main orders the steps of one against the steps of the other.
NextOverlap ==
    \/ \E p \in Procs : MainStep(p)
    \/ Tick

\* Each of the two invocations is one call of main (lines 502-503): the runs
\* the processes made before are over and have left the files as they are.
InitOverlap ==
    /\ metadata_file \in
           {NoMetadataFile} \cup UnreadableMetadataFiles
               \cup {MetadataFile(m) : m \in MetadataChoices}
    /\ fs \in { EmptyFs,
                WithFile(EmptyFs, output_path, OldDataset),
                WithFile(WithFile(EmptyFs, output_path, OldDataset), backup_path,
                         OlderDataset) }
    /\ clock = 0
    /\ pc = [p \in Procs |-> "idle"]
    /\ metadata = [p \in Procs |-> <<>>]
    /\ idx = [p \in Procs |-> 1]
    /\ csv_data = [p \in Procs |-> <<>>]
    /\ temp_path = [p \in Procs |-> ""]
    /\ error = [p \in Procs |-> ""]
    /\ runs = [p \in Procs |-> MaxRuns - 1]
    /\ fs_before = [p \in Procs |-> fs]
    /\ written = <<>>
    /\ IdleGen
    /\ IdleTrain
    /\ IdleUpdate
    /\ IdleLoad

SpecOverlap == InitOverlap /\ [][NextOverlap]_vars

InitGenerate == IdleMain /\ InitGen /\ IdleTrain /\ IdleUpdate /\ IdleLoad

\* generate_examples and then determine_category are called once on arguments
\* of the sets above.
NextGen == GenerateCall \/ DetermineCategoryCall

SpecGen == InitGenerate /\ [][NextGen]_vars

InitTraining == IdleMain /\ IdleGen /\ InitTrain /\ IdleUpdate /\ IdleLoad

\* One of the four training scripts runs once on a dataset of the rows above.
SpecTrain == InitTraining /\ [][TrainStep]_vars

InitUpdating == IdleMain /\ IdleGen /\ IdleTrain /\ InitUpdate /\ IdleLoad

\* update_examples_with_tagalog.py is run on the file, and run again.
SpecUpdate == InitUpdating /\ [][UpdateExamples]_vars

InitLoading == IdleMain /\ IdleGen /\ IdleTrain /\ IdleUpdate /\ InitLoad

\* load_dataset_from_drive is called once.
SpecLoad == InitLoading /\ [][LoadStep]_vars

(***************************************************************************)
(* What the claims speak of                                                *)
(***************************************************************************)

\* The entry has a non-empty 'bisaya' and a non-empty 'english'.
Retained(e) == Truthy(e, "bisaya", "") /\ Truthy(e, "english", "")

RECURSIVE RowsOf(_)
\* The rows of the entries of a metadata list that get one, in order.
RowsOf(m) ==
    IF m = <<>> THEN <<>>
    ELSE LET r == ProcessEntry(Head(m))
         IN (IF r.kind = "row" THEN <<r.row>> ELSE <<>>) \o RowsOf(Tail(m))

\* The run has written its temp file.
AfterWrite(p) ==
    pc[p] \in {"exists_output", "exists_backup", "remove", "copy", "move", "kept_temp", "done"}

\* The file that holds the rows the run wrote: the dataset once the temp file
\* has been moved onto it, the temp file before.
NewFile(p) == IF pc[p] = "done" THEN fs[output_path] ELSE fs[temp_path[p]]

\* The file at path is the same in both file systems: absent in both, or
\* present in both with the same rows.
SameFile(f, g, path) ==
    /\ path \in DOMAIN f <=> path \in DOMAIN g
    /\ path \in DOMAIN f => f[path] = g[path]

BackupFiles == {q \in DOMAIN fs : EndsWith(q, ".backup")}

(***************************************************************************)
(* C1..C10                                                                 *)
(***************************************************************************)

\* C1: for every metadata entry with a non-empty 'bisaya' and 'english' whose
\* example generation raises, the exception is caught: the run does not end at
\* that entry, and once the loop is past it the entry has its row built from
\* the generic fallback templates.
C1_BadEntryNeverAbortsBatch ==
    \A p \in Procs : \A k \in 1..Len(metadata[p]) :
        LET e == metadata[p][k]
        IN (Retained(e) /\ ~CategoryRaises(e) /\ GenerateRaises(e))
           => /\ ~(pc[p] = "crashed" /\ idx[p] = k)
              /\ k < idx[p] =>
                   \E j \in 2..Len(csv_data[p]) :
                       csv_data[p][j] =
                           Row(e.bisaya, e.tagalog, e.english, Get(e, "pos", "Unknown"),
                               Get(e, "pronunciation", ""),
                               determine_category(Get(e, "pos", "Unknown"), e.english),
                               FallbackExamples(e.bisaya, e.tagalog, e.english))

\* C2: when a file operation of the replacement fails with a permission
\* error, main ends without an exception, the temp file holds the header and
\* every generated row, and the dataset file is as it was before the run.
C2_LockedKeepsTempAndOriginal ==
    \A p \in Procs :
        pc[p] = "kept_temp"
        => /\ error[p] = ""
           /\ temp_path[p] \in DOMAIN fs
           /\ fs[temp_path[p]] = <<Header>> \o RowsOf(metadata[p])
           /\ SameFile(fs, fs_before[p], output_path)

\* C2 witness: the move onto an existing dataset was refused after the backup
\* had been made, and the temp file holds data rows.
C2_Witness ==
    \E p \in Procs :
        /\ pc[p] = "kept_temp"
        /\ output_path \in DOMAIN fs /\ backup_path \in DOMAIN fs
        /\ fs[backup_path] = fs[output_path]
        /\ temp_path[p] \in DOMAIN fs /\ Len(fs[temp_path[p]]) > 1

\* C3: the written dataset has one row per entry with a non-empty 'bisaya' and
\* 'english' and none for the others; every data row has a non-empty Bisaya
\* and English field; an entry with an empty Tagalog alone has its row.
C3_EmptyWordOrEnglishExcluded ==
    \A p \in Procs :
        AfterWrite(p)
        => LET f == NewFile(p)
               kept == {k \in 1..Len(metadata[p]) : Retained(metadata[p][k])}
           IN /\ \A j \in 2..Len(f) : f[j][1] # "" /\ f[j][3] # ""
              /\ Len(f) = 1 + Cardinality(kept)
              /\ \A k \in kept :
                     \E j \in 2..Len(f) :
                         /\ f[j][1] = metadata[p][k].bisaya
                         /\ f[j][3] = metadata[p][k].english
                         /\ f[j][2] = Get(metadata[p][k], "tagalog", "")

\* C3 witness: a finished run over an entry with an empty 'english' and an
\* entry without Tagalog; the dataset has the row of the second only.
C3_Witness ==
    \E p \in Procs :
        /\ pc[p] = "done"
        /\ \E k \in 1..Len(metadata[p]) : Get(metadata[p][k], "english", "") = ""
        /\ \E k \in 1..Len(metadata[p]) :
               Retained(metadata[p][k]) /\ Get(metadata[p][k], "tagalog", "") = ""
        /\ Len(fs[output_path]) = 2
        /\ fs[output_path][2][2] = ""

\* C4: two runs that read the same metadata write the same rows, header and
\* data rows in the same order.
C4_SameMetadataSameRows ==
    \A a, b \in 1..Len(written) :
        written[a].metadata = written[b].metadata => written[a].rows = written[b].rows

\* C4 witness: two runs have written data rows, at different seconds.
C4_Witness ==
    /\ Len(written) = 2
    /\ Len(written[2].rows) > 1
    /\ clock > 0
    /\ \E p \in Procs : temp_path[p] = TempPath(1)

\* C7: in every variant, once the similarity table is computed, no word's
\* neighbour list contains the word itself and every list is in non-increasing
\* order of score.
C7_NoSelfNeighbourSortedDescending ==
    train_pc = "done"
    => \A i \in 1..Len(similarity) :
           LET word == similarity[i].key
               neighbours == similarity[i].val
           IN /\ \A n \in 1..Len(neighbours) : neighbours[n].key # word
              /\ \A n \in 1..(Len(neighbours) - 1) :
                     ScoreGeq(neighbours[n].val, neighbours[n + 1].val)

\* C8: after a run that completed the replacement of an existing dataset, the
\* backup holds the dataset of before the run, the dataset holds the new rows,
\* the temp file is gone and there is exactly one backup file.
C8_OneBackupOfPreviousDataset ==
    \A p \in Procs :
        (pc[p] = "done" /\ output_path \in DOMAIN fs_before[p])
        => /\ backup_path \in DOMAIN fs
           /\ fs[backup_path] = fs_before[p][output_path]
           /\ fs[output_path] = <<Header>> \o RowsOf(metadata[p])
           /\ temp_path[p] \notin DOMAIN fs
           /\ Cardinality(BackupFiles) = 1

\* C8 witness: a completed replacement that found an older backup and
\* replaced it.
C8_Witness ==
    \E p \in Procs :
        /\ pc[p] = "done"
        /\ output_path \in DOMAIN fs_before[p]
        /\ backup_path \in DOMAIN fs_before[p]
        /\ fs_before[p][backup_path] # fs[backup_path]
        /\ fs[output_path] # fs_before[p][output_path]

GreetingTag(pos) == InList(Lower(pos), <<"greeting", "expression", "response">>)

\* The hand-written triples of the greeting keywords.
FixedTriples(keyword) ==
    CASE keyword = "kumusta" ->
           <<<<"Kumusta ka?", "How are you?", "Kumusta ka?">>,
             <<"Kumusta na ka karon?", "How are you now?", "Kumusta ka na ngayon?">>,
             <<"Kumusta na ka? Maayo ra ba?", "How are you? Are you doing well?",
               "Kumusta ka na? Mabuti ba?">>>>
      [] keyword = "salamat" ->
           <<<<"Salamat.", "Thank you.", "Salamat.">>,
             <<"Daghang salamat sa imong tabang.", "Thank you very much for your help.",
               "Maraming salamat sa iyong tulong.">>,
             <<"Daghang salamat kaayo sa tanan nga imong nahimo.",
               "Thank you very much for everything you did.",
               "Maraming salamat sa lahat ng iyong ginawa.">>>>
      [] keyword = "palihug" ->
           <<<<"Palihug.", "Please.", "Pakiusap.">>,
             <<"Palihug, tabangi ko.", "Please, help me.", "Pakiusap, tulungan mo ako.">>,
             <<"Palihug, mahimo ba nimo ko tabangan karon?", "Please, can you help me now?",
               "Pakiusap, maaari mo ba akong tulungan ngayon?">>>>
      [] keyword = "pasaylo" ->
           <<<<"Pasaylo.", "Sorry.", "Paumanhin.">>,
             <<"Pasaylo sa akong nahimo.", "Sorry for what I did.",
               "Paumanhin sa aking ginawa.">>,
             <<"Pasaylo kaayo sa tanan nga kasaypanan.",
               "I am very sorry for all the mistakes.",
               "Paumanhin sa lahat ng pagkakamali.">>>>
      [] keyword = "oo" ->
           <<<<"Oo.", "Yes.", "Oo.">>,
             <<"Oo, gusto ko.", "Yes, I want to.", "Oo, gusto ko.">>,
             <<"Oo, sigurado ko nga gusto ko.", "Yes, I am sure I want to.",
               "Oo, sigurado ako na gusto ko.">>>>
      [] keyword = "dili" ->
           <<<<"Dili.", "No.", "Hindi.">>,
             <<"Dili ko gusto.", "I don't want to.", "Ayaw ko.">>,
             <<"Dili ko gusto nga moadto didto.", "I don't want to go there.",
               "Ayaw kong pumunta doon.">>>>

\* The substring rules of the greeting group, in the order they are tried.
GreetingCascade == <<"kumusta", "maayong", "salamat", "palihug", "pasaylo">>

\* C5 as stated: a greeting whose word contains a keyword gets the fixed
\* triples of that keyword, whatever else the word contains.
C5_KeywordAlwaysFixed ==
    (gen_pc = "returned" /\ GreetingTag(gen_args.pos))
    => LET w == Lower(gen_args.bisaya)
       IN /\ \A kw \in {"kumusta", "salamat", "palihug", "pasaylo"} :
                 Contains(kw, w) => gen_result = FixedTriples(kw)
          /\ \A kw \in {"oo", "dili"} : w = kw => gen_result = FixedTriples(kw)

\* C5, amended: a greeting whose word contains a keyword and none of the
\* keywords tried before it ('kumusta', 'maayong', 'salamat', 'palihug',
\* 'pasaylo', in this order) gets the fixed triples of that keyword, whatever
\* its translations are; so do the words 'oo' and 'dili'.
C5_FirstKeywordFixed ==
    (gen_pc = "returned" /\ GreetingTag(gen_args.pos))
    => LET w == Lower(gen_args.bisaya)
       IN /\ \A i \in {1, 3, 4, 5} :
                 (/\ Contains(GreetingCascade[i], w)
                  /\ \A j \in 1..(i - 1) : ~Contains(GreetingCascade[j], w))
                 => gen_result = FixedTriples(GreetingCascade[i])
          /\ \A kw \in {"oo", "dili"} : w = kw => gen_result = FixedTriples(kw)

\* C5 witness: an upper-case 'salamat' greeting whose translations are not
\* those of the templates has returned the 'salamat' triples.
C5_Witness ==
    /\ gen_pc = "returned"
    /\ gen_args.bisaya = "DAGHANG SALAMAT"
    /\ gen_args.pos = "Greeting"
    /\ gen_args.english = "eat" /\ gen_args.tagalog = ""
    /\ gen_result = FixedTriples("salamat")

\* The tag matches none of the tests the cascade makes on it (lines 51, 98,
\* 154, 198, 272, 289, 310).
TagUnmatched(pos) ==
    LET t == Lower(pos)
    IN /\ ~GreetingTag(pos)
       /\ \A kind \in {"verb", "noun", "adjective", "adj", "number", "time", "question"} :
              ~Contains(kind, t)

\* The word contains one of the words the verb, number, time and question
\* rules look for in it (lines 98, 272, 289, 310).
HasRuleWord(bisaya) ==
    ContainsAny(<<"mokaon", "matulog", "mobasa", "mosulat", "mopalit", "usa", "duha",
                  "tulo", "upat", "lima", "karon", "ugma", "gahapon", "adlaw", "asa",
                  "unsa", "kamus-a", "ngano">>, Lower(bisaya))

\* The English gloss before its first '/' or '(', stripped.
CleanGloss(english) == Strip(SplitFirst(SplitFirst(english, "/"), "("))

\* The generic phrase template.
PhraseTemplate(bisaya, tagalog, english) ==
    <<<<bisaya \o ".", CleanGloss(english) \o ".",
        IF tagalog = "" THEN "" ELSE tagalog \o ".">>,
      <<bisaya \o ", mahimo ba?", CleanGloss(english) \o ", is it possible?",
        IF tagalog = "" THEN "" ELSE tagalog \o ", posible ba?">>,
      <<bisaya \o ", mahimo ba nimo ko tabangan?", CleanGloss(english) \o ", can you help me?",
        IF tagalog = "" THEN "" ELSE tagalog \o ", maaari mo ba akong tulungan?">>>>

\* The generic single-word template.
WordTemplate(bisaya, tagalog, english) ==
    <<<<bisaya \o " na.", CleanGloss(english) \o " now.",
        IF tagalog = "" THEN "" ELSE tagalog \o " ngayon.">>,
      <<"Gusto ko ug " \o bisaya \o ".", "I want " \o Lower(CleanGloss(english)) \o ".",
        IF tagalog = "" THEN "" ELSE "Gusto ko ng " \o Lower(tagalog) \o ".">>,
      <<"Gipalit nako ang " \o bisaya \o " sa tindahan.",
        "I bought the " \o Lower(CleanGloss(english)) \o " at the store.",
        IF tagalog = "" THEN "" ELSE "Binili ko ang " \o Lower(tagalog) \o " sa tindahan.">>>>

\* C6 as stated: an entry whose tag matches no rule gets the generic phrase
\* template.
C6_UnmatchedTagGetsPhraseTemplate ==
    (gen_pc = "returned" /\ TagUnmatched(gen_args.pos))
    => gen_result = PhraseTemplate(gen_args.bisaya, gen_args.tagalog, gen_args.english)

\* C6, amended: an entry whose tag matches no rule and whose word contains
\* none of the words the verb, number, time and question rules look for falls
\* through to the default branch without an error: the generic phrase template
\* when the word contains a space, the generic single-word template otherwise.
C6_UnmatchedTagGetsDefaultBranch ==
    (gen_pc = "returned" /\ TagUnmatched(gen_args.pos) /\ ~HasRuleWord(gen_args.bisaya))
    => gen_result =
           IF Contains(" ", gen_args.bisaya)
           THEN PhraseTemplate(gen_args.bisaya, gen_args.tagalog, gen_args.english)
           ELSE WordTemplate(gen_args.bisaya, gen_args.tagalog, gen_args.english)

\* C6 witness: a two-word entry tagged 'Particle', without Tagalog, has
\* returned the phrase template.
C6_Witness ==
    /\ gen_pc = "returned"
    /\ gen_args.pos = "Particle"
    /\ gen_args.bisaya = "Sa balay"
    /\ gen_args.tagalog = ""
    /\ gen_result = PhraseTemplate("Sa balay", "", gen_args.english)

\* The cell holds a word: it is not empty and not blank.
NonEmptyWord(cell) == notna(cell) /\ Strip(cell.text) # ""

\* The embedding the run holds for row r of the dataframe: the dict's value
\* under the lower-cased word, or the list's element for the row.
EmbeddingOfRow(r) ==
    IF variant \in TFLiteVariants
    THEN embeddings_list[Cardinality({q \in 1..r : NonEmptyWord(df[q].Bisaya)})]
    ELSE DictGet(embeddings, Lower(Strip(df[r].Bisaya.text)))

\* C10: once the embedding step is over, every row with a non-empty Bisaya
\* word has a vector of dimension 100: the trained vector of the lower-cased
\* word when it is in the vocabulary, otherwise the mean of the vectors of its
\* tokens that are, otherwise the zero vector.
C10_EveryWordGetsEmbedding ==
    train_pc \in {"embedded", "done"}
    => \A r \in 1..Len(df) :
           NonEmptyWord(df[r].Bisaya)
           => LET word == Lower(Strip(df[r].Bisaya.text))
                  tokens == SplitWs(word)
                  known == {n \in 1..Len(tokens) : tokens[n] \in DOMAIN wv}
                  SumOfKnown(k) ==
                      LET RECURSIVE UpTo(_)
                          UpTo(n) == IF n = 0 THEN 0
                                     ELSE (IF n \in known THEN wv[tokens[n]][k] ELSE 0)
                                          + UpTo(n - 1)
                      IN UpTo(Len(tokens))
                  v == EmbeddingOfRow(r)
              IN /\ variant \notin TFLiteVariants => HasKey(embeddings, word)
                 /\ variant \in TFLiteVariants => HasKey(word_to_index, word)
                 /\ DOMAIN v = 1..100
                 /\ IF word \in DOMAIN wv THEN v = wv[word]
                    ELSE IF known # {}
                    THEN \A k \in 1..100 : v[k] * Cardinality(known) = SumOfKnown(k)
                    ELSE \A k \in 1..100 : v[k] = 0

\* C10 witness: the embedding step is over for a dataset with a word of the
\* vocabulary, a phrase whose two tokens have different vectors, and a word
\* with no known token.
C10_Witness ==
    /\ train_pc = "embedded"
    /\ Len(df) = 3
    /\ df[1].Bisaya = Cell("Salamat")
    /\ df[2].Bisaya = Cell("Maayong buntag")
    /\ df[3].Bisaya = Cell("Nan")
    /\ "nan" \notin DOMAIN wv
    /\ wv["maayong"] # wv["buntag"]
    /\ EmbeddingOfRow(2) = Vector(0, 1)
    /\ EmbeddingOfRow(3) = zeros(100)

\* C11: when the metadata file is missing or cannot be read, every run of main
\* ends at load_metadata with the exception it raised: no row is generated, no
\* temp file is written, and all files, the dataset and its backup among them,
\* are as they were when the run started.
C11_NoMetadataNothingWritten ==
    \A p \in Procs :
        (runs[p] > 0 /\ (~metadata_file.exists \/ metadata_file.fault # ""))
        => /\ pc[p] = "crashed"
           /\ error[p] \in {"FileNotFoundError", "PermissionError", "JSONDecodeError"}
           /\ csv_data[p] = <<>>
           /\ written = <<>>
           /\ temp_path[p] \notin DOMAIN fs
           /\ fs = fs_before[p]
           /\ SameFile(fs, fs_before[p], output_path)
           /\ SameFile(fs, fs_before[p], backup_path)

\* C11 witness: a run over an unparsable metadata file has ended, with a
\* dataset and a backup on disk.
C11_Witness ==
    \E p \in Procs :
        /\ pc[p] = "crashed"
        /\ error[p] = "JSONDecodeError"
        /\ output_path \in DOMAIN fs /\ fs[output_path] = OldDataset
        /\ backup_path \in DOMAIN fs /\ fs[backup_path] = OlderDataset

(***************************************************************************)
(* C12: whatever strings it is called with (an empty Tagalog translation,  *)
(* the one-word greeting "Maayong", an English gloss that is empty before  *)
(* its first '/' or '(', a one-letter verb, an empty word), a call of      *)
(* generate_examples returns: its result is exactly three triples of       *)
(* strings (beginner, intermediate, advanced; Bisaya, English, Tagalog     *)
(* inside each), so that no tier is left unassigned.                       *)
(***************************************************************************)
IsTriple(t) == Len(t) = 3 /\ \A j \in 1..3 : t[j] \in STRING

C12_ThreeTriplesOnEveryPath ==
    gen_pc = "returned" =>
        /\ Len(gen_result) = 3
        /\ \A i \in 1..3 : IsTriple(gen_result[i])

C12_Witness ==
    /\ gen_pc = "returned"
    /\ gen_args = [bisaya |-> "Maayong", tagalog |-> "", english |-> "/ hello",
                   pos |-> "Greeting"]
    /\ gen_result = <<<<"Maayong.", ".", "">>,
                      <<"Maayong  sa tanan!", "Good  to everyone!", "">>,
                      <<"Maayong ! Kumusta ang imong adlaw?", "Good ! How is your day?", "">>>>

(***************************************************************************)
(* C13: the examples of a row depend on the entry's bisaya, tagalog,       *)
(* english and pos alone: they are what a call with the default category   *)
(* returns, two rows with the same four values carry the same examples     *)
(* wherever they stand in the batch and whichever run wrote them, and the  *)
(* metadata a run loaded is never changed by processing it.                *)
(***************************************************************************)
ExamplesOf(row) == SubSeq(row, 7, 15)

Flat(examples) == examples[1] \o examples[2] \o examples[3]

DataRows(rows) == IF rows = <<>> THEN <<>> ELSE Tail(rows)

RowsSeen ==
    UNION ( {{DataRows(csv_data[p])[i] : i \in 1..Len(DataRows(csv_data[p]))} : p \in Procs}
            \cup {{DataRows(fs[q])[i] : i \in 1..Len(DataRows(fs[q]))} :
                     q \in DOMAIN fs \ {backup_path}} )

GeneratedRows == {r \in RowsSeen : r \notin {OldRow("daan"), OldRow("karaan")}}

C13_ExamplesDependOnFourArgumentsOnly ==
    /\ \A r \in GeneratedRows :
           ExamplesOf(r) = Flat(GenerateExamples(r[1], r[2], r[3], r[4], ""))
    /\ \A r1, r2 \in GeneratedRows :
           SubSeq(r1, 1, 4) = SubSeq(r2, 1, 4) => ExamplesOf(r1) = ExamplesOf(r2)
    /\ \A p \in Procs :
           (runs[p] > 0 /\ metadata_file.exists /\ metadata_file.fault = "")
           => metadata[p] = metadata_file.metadata

C13_Witness ==
    \E p \in Procs :
        /\ runs[p] = 2
        /\ Len(csv_data[p]) = 3
        /\ csv_data[p][2] = csv_data[p][3]
        /\ csv_data[p][2][1] = "Salamat"
        /\ csv_data[p][2][6] # ""
        /\ output_path \in DOMAIN fs /\ fs[output_path] = csv_data[p]
        /\ metadata[p] = metadata_file.metadata

(***************************************************************************)
(* C14: the dataset a run writes is the 15-column header followed by one   *)
(* 15-field row per retained entry, in the order of the metadata list,     *)
(* repeated entries giving repeated rows; a row holds the entry's bisaya,  *)
(* tagalog, english, pos (default 'Unknown') and pronunciation (default    *)
(* ''), then the category, then the nine example strings tier by tier.     *)
(***************************************************************************)
C14_HeaderThenOneRowPerRetainedEntry ==
    \A p \in Procs :
        AfterWrite(p)
        => LET f == NewFile(p)
               kept == SelectSeq(metadata[p], Retained)
           IN /\ Len(Header) = 15
              /\ f[1] = Header
              /\ Len(f) = 1 + Len(kept)
              /\ \A k \in 1..Len(kept) :
                     LET e == kept[k]
                         row == f[k + 1]
                         bisaya == Get(e, "bisaya", "")
                         tagalog == Get(e, "tagalog", "")
                         english == Get(e, "english", "")
                         pos == Get(e, "pos", "Unknown")
                         examples == generate_examples(bisaya, tagalog, english, pos)
                     IN /\ Len(row) = 15
                        /\ SubSeq(row, 1, 5) =
                               <<bisaya, tagalog, english, pos, Get(e, "pronunciation", "")>>
                        /\ row[6] = determine_category(pos, english)
                        /\ SubSeq(row, 7, 9) = examples[1]
                        /\ SubSeq(row, 10, 12) = examples[2]
                        /\ SubSeq(row, 13, 15) = examples[3]

\* C14 witness: a finished run over a list that holds the same entry twice,
\* an entry without 'pos'; the dataset has its row twice, with 'Unknown'.
C14_Witness ==
    \E p \in Procs :
        /\ pc[p] = "done"
        /\ Len(metadata[p]) = 2
        /\ metadata[p][1] = metadata[p][2]
        /\ "pos" \notin metadata[p][1].keys
        /\ Len(fs[output_path]) = 3
        /\ fs[output_path][2] = fs[output_path][3]
        /\ fs[output_path][2][4] = "Unknown"

\* The words the similarity step compares, in the order it collects them: the
\* keys of the embeddings dict, or in the TFLite variants one word per row
\* whose lower-cased Bisaya is in the vocabulary.
WordsCompared ==
    IF variant \in TFLiteVariants
    THEN LET InVocabulary(row) == HasBisaya(row) /\ bisaya_lower(row) \in DOMAIN wv
             rows == SelectSeq(df, InVocabulary)
         IN [i \in 1..Len(rows) |-> bisaya_lower(rows[i])]
    ELSE DictKeys(embeddings)

\* The vector the similarity step uses for a word it compares.
VectorCompared(word) ==
    IF variant \in TFLiteVariants THEN wv[word] ELSE DictGet(embeddings, word)

Min(a, b) == IF a < b THEN a ELSE b

\* C15: once the similarity table is computed, the neighbour list of every
\* word of the table has exactly min(10, N - 1) entries, N being the number
\* of words compared, and no compared word left out of a list is strictly
\* more similar to the word than a neighbour the list keeps.
C15_NeighbourListHasTopTenOfTheOthers ==
    train_pc = "done"
    => \A i \in 1..Len(similarity) :
           LET word == similarity[i].key
               neighbours == similarity[i].val
               N == Len(WordsCompared)
           IN /\ Len(neighbours) = Min(TopN, N - 1)
              /\ \A j \in 1..N :
                     LET other == WordsCompared[j]
                     IN (other # word /\ ~HasKey(neighbours, other))
                        => \A n \in 1..Len(neighbours) :
                               ScoreGeq(neighbours[n].val,
                                        Cosine(VectorCompared(word), VectorCompared(other)))

\* Both runs are in progress: each has started and has not ended.
Overlapping(p, q) == p # q /\ ~Ended(p) /\ ~Ended(q)

\* C16: the writer takes no lock.  A run starts whatever the other run is
\* doing, the two may compute the same temp file name, and a run whose temp
\* file the other run has already moved away can only end its move with an
\* error main does not catch.  (The witness below is the interleaving the
\* claim speaks of.)
C16_RunsTakeNoLock ==
    \A p \in Procs :
        /\ (Ended(p) /\ runs[p] < MaxRuns) => ENABLED Start(p)
        /\ (pc[p] = "move" /\ temp_path[p] \notin DOMAIN fs)
           => /\ \E q \in Procs \ {p} : temp_path[q] = temp_path[p] /\ pc[q] = "done"
              /\ ENABLED MoveTemp(p)
              /\ ~ENABLED (MoveTemp(p) /\ pc'[p] # "crashed")

\* C16 witness: two runs started in the same second on an existing dataset;
\* one has completed its replacement, the other has ended with the
\* FileNotFoundError of its move, and the backup holds the rows the first run
\* wrote, not the dataset that existed before both runs.
C16_Witness ==
    \E p, q \in Procs :
        /\ p # q
        /\ temp_path[p] = temp_path[q]
        /\ pc[p] = "done"
        /\ pc[q] = "crashed" /\ error[q] = "FileNotFoundError"
        /\ metadata_file.exists /\ metadata_file.fault = ""
        /\ fs_before[p] = fs_before[q]
        /\ output_path \in DOMAIN fs_before[p]
        /\ fs[backup_path] # fs_before[p][output_path]
        /\ fs[backup_path] = csv_data[p]

\* C17: when the dataset CSV does not exist, train_json_model.main reports
\* the error and returns: it raises nothing, trains no model, computes no
\* embedding and no similarity, and the files under assets/models, a
\* bisaya_model.json of an earlier training among them, stay as they were.
C17_MissingCsvLeavesModelFile ==
    (variant = "train_json_model" /\ ~csv_exists /\ train_pc # "start")
    => /\ train_pc = "returned"
       /\ train_error = "Dataset not found"
       /\ wv = NoModel
       /\ embeddings = EmptyDict
       /\ similarity = EmptyDict
       /\ outputs \in {NoFiles, OldModelFiles}
       /\ ~ENABLED TrainStep

\* C17 witness: the script has returned and the model file of an earlier
\* training is still there.
C17_Witness ==
    /\ variant = "train_json_model"
    /\ ~csv_exists
    /\ train_pc = "returned"
    /\ outputs = OldModelFiles

\* The rule groups in the order the cascade tries them (lines 51, 98, 154,
\* 198, 272, 289, 310, 334).
GroupOrder ==
    <<"greeting", "verb", "noun", "adjective", "number", "time", "question", "default">>

\* The test that opens a group.
GroupMatches(group, bisaya, pos) ==
    LET w == Lower(bisaya)
        t == Lower(pos)
    IN CASE group = "greeting" -> InList(t, <<"greeting", "expression", "response">>)
         [] group = "verb" ->
                Contains("verb", t)
                \/ ContainsAny(<<"mokaon", "matulog", "mobasa", "mosulat", "mopalit">>, w)
         [] group = "noun" -> Contains("noun", t)
         [] group = "adjective" -> Contains("adjective", t) \/ Contains("adj", t)
         [] group = "number" ->
                Contains("number", t) \/ ContainsAny(<<"usa", "duha", "tulo", "upat", "lima">>, w)
         [] group = "time" ->
                Contains("time", t) \/ ContainsAny(<<"karon", "ugma", "gahapon", "adlaw">>, w)
         [] group = "question" ->
                Contains("question", t) \/ ContainsAny(<<"asa", "unsa", "kamus-a", "ngano">>, w)
         [] group = "default" -> TRUE

\* The templates of a group.
GroupExamples(group, bisaya, tagalog, english) ==
    CASE group = "greeting" -> GreetingExamples(bisaya, tagalog, english)
      [] group = "verb" -> VerbExamples(bisaya, tagalog, english)
      [] group = "noun" -> NounExamples(bisaya, tagalog, english)
      [] group = "adjective" -> AdjectiveExamples(bisaya, tagalog, english)
      [] group = "number" -> NumberExamples(bisaya, tagalog, english)
      [] group = "time" -> TimeExamples(bisaya, tagalog, english)
      [] group = "question" -> QuestionExamples(bisaya, tagalog, english)
      [] group = "default" -> DefaultExamples(bisaya, tagalog, english)

\* C18: a call returns the templates of the first group, in the order
\* greeting, verb, noun, adjective, number, time, question, default, whose
\* test the entry passes, whatever later groups it would also pass; and in
\* the greeting group the templates of the first keyword, in written order,
\* the word contains.
C18_EarliestRuleWins ==
    gen_pc = "returned"
    => LET a == gen_args
           first == CHOOSE g \in 1..Len(GroupOrder) :
                        /\ GroupMatches(GroupOrder[g], a.bisaya, a.pos)
                        /\ \A h \in 1..(g - 1) : ~GroupMatches(GroupOrder[h], a.bisaya, a.pos)
       IN /\ gen_result = GroupExamples(GroupOrder[first], a.bisaya, a.tagalog, a.english)
          /\ (GroupOrder[first] = "greeting" /\ Contains("kumusta", Lower(a.bisaya)))
             => gen_result = FixedTriples("kumusta")
          /\ (GroupOrder[first] = "greeting" /\ Contains("salamat", Lower(a.bisaya))
                /\ ~Contains("kumusta", Lower(a.bisaya))
                /\ ~Contains("maayong", Lower(a.bisaya)))
             => gen_result = FixedTriples("salamat")

\* C18 witness: a noun whose word contains 'adlaw' and whose gloss is 'now'
\* passes the noun test and the time test; it has the noun templates, which
\* are not the time templates.
C18_Witness ==
    /\ gen_pc = "returned"
    /\ gen_args.bisaya = "Adlaw" /\ gen_args.pos = "Noun" /\ gen_args.english = "now"
    /\ GroupMatches("time", gen_args.bisaya, gen_args.pos)
    /\ gen_result = NounExamples("Adlaw", gen_args.tagalog, "now")
    /\ gen_result # TimeExamples("Adlaw", gen_args.tagalog, "now")

\* The vocabulary file a TFLite run has exported.
ExportedMetadata == outputs["bisaya_metadata.json"]

\* C19: in the TFLite variants, once the vocabulary is exported,
\* word_to_index and index_to_word are inverse of each other, every index is
\* in 0..vocab_size-1, vocab_size is the number of rows of the embedding
\* table, and the row of the table at a word's index is the word's vector.
C19_IndexMapsInverseAndInTable ==
    (variant \in TFLiteVariants /\ train_pc \in {"embedded", "done"})
    => LET w2i == ExportedMetadata.word_to_index
           i2w == ExportedMetadata.index_to_word
           vocab_size == ExportedMetadata.vocab_size
       IN /\ \A n \in 1..Len(w2i) :
                 HasKey(i2w, w2i[n].val) /\ DictGet(i2w, w2i[n].val) = w2i[n].key
          /\ \A n \in 1..Len(i2w) :
                 HasKey(w2i, i2w[n].val) /\ DictGet(w2i, i2w[n].val) = i2w[n].key
          /\ \A n \in 1..Len(w2i) : w2i[n].val \in 0..(vocab_size - 1)
          /\ vocab_size = Len(embeddings_list)
          /\ \A n \in 1..Len(w2i) :
                 /\ w2i[n].val + 1 \in 1..Len(embeddings_list)
                 /\ embeddings_list[w2i[n].val + 1] = Embedding(wv, w2i[n].key)

\* C20: in the TFLite variants, once the similarity table is exported, every
\* key of word_to_index has an entry in the table, and every neighbour the
\* table names is a key of word_to_index.
C20_SimilarityCoversIndexedWords ==
    (variant \in TFLiteVariants /\ train_pc = "done")
    => LET table == outputs["bisaya_similarity.json"]
       IN /\ \A n \in 1..Len(word_to_index) : HasKey(table, word_to_index[n].key)
          /\ \A i \in 1..Len(table) :
                 \A n \in 1..Len(table[i].val) :
                     HasKey(word_to_index, table[i].val[n].key)

\* The words the metadata part of a bundle has a record for, one per record.
MetadataWords(v, metadata_part) ==
    [n \in 1..Len(metadata_part) |->
        IF v = "train_model" THEN metadata_part[n].key ELSE Lower(metadata_part[n].bisaya)]

\* The set of the elements of a sequence.
Range(seq) == {seq[n] : n \in 1..Len(seq)}

\* C21: in the bundle train_model and train_json_model export, the
\* embeddings, the similarity table and the metadata describe the same set of
\* words, with one metadata record and one similarity entry per embedded
\* word, and the count field is the size of that set.
C21_BundlePartsDescribeSameWords ==
    (variant \notin TFLiteVariants /\ train_pc = "done")
    => LET bundle == outputs["bisaya_model.json"]
           words == Range(DictKeys(bundle.embeddings))
           described == MetadataWords(variant, bundle.metadata)
       IN /\ Range(described) = words
          /\ Len(described) = Cardinality(words)
          /\ Range(DictKeys(bundle.similarity)) = words
          /\ Len(bundle.similarity) = Cardinality(words)
          /\ bundle.count = Cardinality(words)

\* The script's main is over: it has returned or an exception has left it.
TrainEnded == train_pc \in {"done", "returned", "crashed"}

\* C22: when TensorFlow cannot be imported, a run of train_tflite_model on a
\* dataset it can train on ends normally, with the metadata file and the
\* similarity file written and the .tflite export alone left out.
C22_WithoutTensorFlowJsonOutputsWritten ==
    (/\ variant = "train_tflite_model"
     /\ ~tf_available
     /\ csv_exists
     /\ TrainEnded
     /\ train_error # "RuntimeError")
    => /\ train_pc = "done"
       /\ train_error = ""
       /\ "bisaya_metadata.json" \in DOMAIN outputs
       /\ "bisaya_similarity.json" \in DOMAIN outputs
       /\ "bisaya_model.tflite" \notin DOMAIN outputs

\* C23: when a run abandons the replacement on a permission error, the
\* dataset file and the backup file that existed before the run have exactly
\* the content they had when the run started, and the only file added is the
\* run's temp file.
C23_AbandonedRunLeavesDatasetAndBackup ==
    \A p \in Procs :
        pc[p] = "kept_temp"
        => /\ SameFile(fs, fs_before[p], output_path)
           /\ SameFile(fs, fs_before[p], backup_path)
           /\ temp_path[p] \in DOMAIN fs
           /\ \A q \in (DOMAIN fs \cup DOMAIN fs_before[p]) \ {temp_path[p]} :
                  SameFile(fs, fs_before[p], q)

\* The steps of train_tflite_colab.main in the order the code runs them.
ColabSteps ==
    <<"start", "mounted", "loaded", "trained", "model_built", "converted",
      "embedded", "saved_local", "done">>

ColabStep(name) == CHOOSE i \in 1..Len(ColabSteps) : ColabSteps[i] = name

Artefacts == {"bisaya_model.tflite", "bisaya_metadata.json", "bisaya_similarity.json"}

\* C24: train_tflite_colab.main runs mount, load, train, build model, write
\* .tflite, write metadata, write similarity, copy to Drive in that order: each
\* artefact exists locally exactly from its step on, the Drive folder receives
\* files only after all three artefacts exist locally and then holds those
\* three, and a run whose mount or load fails returns having trained nothing,
\* written no artefact and copied nothing.
C24_ColabStepsInOrderCopyLast ==
    variant = "train_tflite_colab" /\ train_pc # "idle"
    => /\ train_pc \in Range(ColabSteps) \cup {"returned", "crashed"}
       /\ train_pc \in Range(ColabSteps)
          => /\ (wv # NoModel) <=> ColabStep(train_pc) >= ColabStep("trained")
             /\ (df # <<>>) => ColabStep(train_pc) >= ColabStep("loaded")
             /\ ("bisaya_model.tflite" \in DOMAIN outputs)
                   <=> ColabStep(train_pc) >= ColabStep("converted")
             /\ ("bisaya_metadata.json" \in DOMAIN outputs)
                   <=> ColabStep(train_pc) >= ColabStep("embedded")
             /\ ("bisaya_similarity.json" \in DOMAIN outputs)
                   <=> ColabStep(train_pc) >= ColabStep("saved_local")
             /\ (drive_files # NoFiles) <=> train_pc = "done"
             /\ ColabStep(train_pc) >= ColabStep("mounted") => drive_mountable
             /\ ColabStep(train_pc) >= ColabStep("loaded") => csv_exists
       /\ drive_files # NoFiles
          => /\ Artefacts \subseteq DOMAIN outputs
             /\ DOMAIN drive_files = Artefacts
             /\ \A f \in Artefacts : drive_files[f] = outputs[f]
       /\ train_pc \in {"returned", "crashed"}
          => /\ wv = NoModel
             /\ DOMAIN outputs \cap Artefacts = {}
             /\ drive_files = NoFiles
       /\ (~drive_mountable \/ ~csv_exists) => train_pc \in {"start", "mounted", "returned"}

C24_Witness ==
    /\ variant = "train_tflite_colab"
    /\ train_pc = "done"
    /\ DOMAIN drive_files = Artefacts
    /\ \A f \in Artefacts : drive_files[f] = outputs[f]
    /\ word_to_index # EmptyDict

\* The labels determine_category can return.
CategoryLabels ==
    {"Greetings", "Common Phrases", "Numbers", "Food & Dining", "Market/Shopping",
     "Actions", "Family", "Home & Living", "Education", "Common Nouns", "Descriptions",
     "Time", "Questions", "Uncategorized"}

\* The tests of determine_category in the order of its if/elif chain.
CategoryTests ==
    <<"greeting", "expression/response", "number", "verb", "noun", "adjective", "time",
      "question">>

TimeWords == <<"now", "today", "tomorrow", "yesterday", "day", "month", "year">>

CategoryTestHolds(test, pos, english) ==
    LET pos_lower == Lower(pos)
        english_lower == Lower(english)
    IN  CASE test = "greeting" -> Contains("greeting", pos_lower)
          [] test = "expression/response" ->
                 Contains("expression", pos_lower) \/ Contains("response", pos_lower)
          [] test = "time" ->
                 Contains("time", pos_lower) \/ ContainsAny(TimeWords, english_lower)
          [] OTHER -> Contains(test, pos_lower)

LabelsOfTest(test) ==
    CASE test = "greeting" -> {"Greetings"}
      [] test = "expression/response" -> {"Common Phrases"}
      [] test = "number" -> {"Numbers"}
      [] test = "verb" -> {"Food & Dining", "Market/Shopping", "Actions"}
      [] test = "noun" -> {"Family", "Food & Dining", "Home & Living", "Education",
                           "Common Nouns"}
      [] test = "adjective" -> {"Descriptions"}
      [] test = "time" -> {"Time"}
      [] test = "question" -> {"Questions"}

\* C26: determine_category returns, for every pair of strings, one of the
\* fixed labels: a label of the first test that matches in the order greeting,
\* expression/response, number, verb, noun, adjective, time, question, and
\* 'Uncategorized' exactly when no test matches, that is when the tag names
\* none of the parts of speech and the English gloss contains no time word.
C26_CategoryByFirstMatchingTest ==
    gen_pc = "categorised"
    => LET hits == {i \in 1..Len(CategoryTests) :
                       CategoryTestHolds(CategoryTests[i], gen_args.pos, gen_args.english)}
       IN /\ gen_category \in CategoryLabels
          /\ hits # {}
             => LET first == CHOOSE i \in hits : \A j \in hits : i <= j
                IN gen_category \in LabelsOfTest(CategoryTests[first])
          /\ (gen_category = "Uncategorized") <=> (hits = {})
          /\ gen_category = "Uncategorized"
             => /\ \A w \in {"greeting", "expression", "response", "number", "verb",
                              "noun", "adjective", "time", "question"} :
                       ~Contains(w, Lower(gen_args.pos))
                /\ ~ContainsAny(TimeWords, Lower(gen_args.english))

C26_Witness ==
    /\ gen_pc = "categorised"
    /\ gen_args.pos = "Noun/Verb"
    /\ gen_args.english = "father"
    /\ gen_category = "Actions"

\* The Tagalog sentences of the three tiers of a result.
TagalogTiers(result) == {result[i][3] : i \in 1..3}

\* The entry is handled by an interpolated template: its examples change with
\* the Tagalog translation passed in, which the hand-written ones never do.
Interpolated(a, result) ==
    \E t \in GenTagalog : generate_examples(a.bisaya, t, a.english, a.pos) # result

\* C25: no result mixes empty and filled Tagalog tiers; for an entry handled
\* by an interpolated template the three Tagalog sentences are all empty
\* exactly when the entry's Tagalog translation is empty, and when it is not
\* every one of them carries the translation in its slot.
C25_TagalogTiersAllOrNothing ==
    gen_pc \in {"returned", "categorised"}
    => LET tiers == TagalogTiers(gen_result)
       IN /\ (\A sent \in tiers : sent = "") \/ (\A sent \in tiers : sent # "")
          /\ Interpolated(gen_args, gen_result)
             => /\ (gen_args.tagalog = "") <=> (\A sent \in tiers : sent = "")
                /\ gen_args.tagalog # ""
                   => \A sent \in tiers : Contains(Lower(gen_args.tagalog), Lower(sent))
          /\ ~Interpolated(gen_args, gen_result) => \A sent \in tiers : sent # ""

C25_Witness ==
    /\ gen_pc = "returned"
    /\ gen_args = [bisaya |-> "Iring", tagalog |-> "Ito", english |-> "b", pos |-> "Verb"]
    /\ Interpolated(gen_args, gen_result)
    /\ TagalogTiers(gen_result) =
           {"Gusto kong ito.", "Ito ako ngayon.", "Ito ko ang lahat kanina."}

\* The group whose templates generate_examples uses for an entry: the first
\* one, in the order of its if/elif chain, whose test the entry passes.
TemplateFamily(bisaya, pos) ==
    GroupOrder[CHOOSE g \in 1..Len(GroupOrder) :
                   /\ GroupMatches(GroupOrder[g], bisaya, pos)
                   /\ \A h \in 1..(g - 1) : ~GroupMatches(GroupOrder[h], bisaya, pos)]

\* C27: the category and the template family of an entry agree: verb
\* templates only with a verb category (Actions, Food & Dining,
\* Market/Shopping), adjective templates only with 'Descriptions', and an
\* entry categorised 'Uncategorized' has the default templates.
C27_CategoryAndTemplatesAgree ==
    gen_pc = "categorised"
    => LET family == TemplateFamily(gen_args.bisaya, gen_args.pos)
       IN /\ gen_result = GroupExamples(family, gen_args.bisaya, gen_args.tagalog,
                                        gen_args.english)
          /\ family = "verb"
             => gen_category \in {"Actions", "Food & Dining", "Market/Shopping"}
          /\ family = "adjective" => gen_category = "Descriptions"
          /\ gen_category = "Uncategorized" => family = "default"

RECURSIVE SplitLines(_)
\* The lines of a text whose lines are each ended by a newline.
SplitLines(text) ==
    IF text = "" THEN <<>>
    ELSE LET k == CHOOSE k \in 1..Len(text) :
                      /\ CharAt(text, k) = "\n"
                      /\ \A j \in 1..(k - 1) : CharAt(text, j) # "\n"
         IN <<SubSeq(text, 1, k - 1)>> \o SplitLines(SubSeq(text, k + 1, Len(text)))

\* Some pattern of verb_patterns matches in the line.
LineMatches(line) ==
    \E i \in 1..Len(compiled_patterns) : Contains(compiled_patterns[i][1], line)

\* No pattern matches in the replacement text of any pattern.
NoReplacementMatched ==
    \A i, j \in 1..Len(compiled_patterns) :
        ~Contains(compiled_patterns[i][1], compiled_patterns[j][2])

\* C28: running update_examples_with_tagalog a second time leaves the file as
\* the first run left it, no pattern matches in any replacement text, and a
\* run keeps the number of lines and writes back unchanged every line in
\* which no pattern matches.
C28_UpdateIdempotentAndLocal ==
    /\ upd_runs = "run twice" => upd_file = upd_once
    /\ NoReplacementMatched
    /\ upd_runs \in {"run once", "run twice"}
       => LET before == SplitLines(upd_before)
              after == SplitLines(upd_file)
          IN /\ Len(after) = Len(before)
             /\ \A n \in 1..Len(before) : ~LineMatches(before[n]) => after[n] = before[n]

C28_Witness ==
    /\ upd_runs = "run twice"
    /\ upd_file = upd_once
    /\ upd_file # upd_before
    /\ LET before == SplitLines(upd_before)
           after == SplitLines(upd_file)
       IN /\ Len(before) = 3
          /\ LineMatches(before[1]) /\ after[1] # before[1]
          /\ ~LineMatches(before[2]) /\ before[2] # "" /\ after[2] = before[2]
          /\ Contains("higala", before[3]) /\ Contains("kaibigan", after[3])

\* The keyword pairs (in the Bisaya word, in the English gloss) of the
\* hand-written verb templates, lines 100-131.
VerbKeywords ==
    <<<<"kaon", "eat">>, <<"tulog", "sleep">>, <<"basa", "read">>, <<"sulat", "write">>,
      <<"palit", "buy">>, <<"lakaw", "walk">>, <<"dagan", "run">>, <<"adto", "go">>>>

\* The entry reaches the generic verb branch, lines 132-151.
GenericVerb(a) ==
    /\ TemplateFamily(a.bisaya, a.pos) = "verb"
    /\ \A k \in 1..Len(VerbKeywords) :
           /\ ~Contains(VerbKeywords[k][1], Lower(a.bisaya))
           /\ ~Contains(VerbKeywords[k][2], Lower(a.english))

Vowels == {"a", "e", "i", "o", "u"}

\* The first of the four past-tense rules, in their order, that applies.
PastTenseRule(v) ==
    CASE v # "" /\ CharAt(v, Len(v)) = "e" -> 1
      [] v # "" /\ CharAt(v, Len(v)) = "y" -> 2
      [] /\ Len(v) > 1
         /\ CharAt(v, Len(v)) \notin Vowels \cup {"e", "y"}
         /\ CharAt(v, Len(v) - 1) \in Vowels -> 3
      [] OTHER -> 4

\* What a rule makes of the verb.
ByPastTenseRule(rule, v) ==
    CASE rule = 1 -> v \o "d"
      [] rule = 2 -> SubSeq(v, 1, Len(v) - 1) \o "ied"
      [] rule = 3 -> v \o CharAt(v, Len(v)) \o "ed"
      [] rule = 4 -> v \o "ed"

\* C29: in the generic verb branch the past tense in the advanced English
\* sentence is, for every English verb (the empty one and one-letter ones
\* too), what the first applicable rule makes of it: ends in 'e' -> append
\* 'd'; ends in 'y' -> 'y' replaced by 'ied'; longer than one letter with a
\* non-vowel last letter after a vowel -> last letter doubled and 'ed'
\* appended; otherwise 'ed' appended.  It always ends in 'd'.
C29_PastTenseByFirstRule ==
    (gen_pc \in {"returned", "categorised"} /\ GenericVerb(gen_args))
    => LET english_verb ==
               Lower(Strip(SplitFirst(SplitFirst(gen_args.english, "/"), "(")))
           past == ByPastTenseRule(PastTenseRule(english_verb), english_verb)
       IN /\ gen_result[3][2] = "I " \o past \o " everything earlier."
          /\ gen_result[2][2] = "I will " \o english_verb \o " now."
          /\ EndsWith(past, "d")

C29_Witness ==
    /\ gen_pc = "returned"
    /\ GenericVerb(gen_args)
    /\ gen_args.english = "carry"
    /\ gen_result[3][2] = "I carried everything earlier."

\* The encodings under which pd.read_csv fails.
Fails(encoding) == load_outcome[encoding] # "ok"

\* C30: load_dataset_from_drive raises FileNotFoundError before any read when
\* the CSV is absent; otherwise it tries the encodings in the order of the
\* list, goes on after either kind of failure, returns the data read with the
\* first encoding that succeeds without trying a later one, and raises
\* ValueError only when every encoding of the list has failed.
C30_FirstEncodingThatReads ==
    load_pc # "idle"
    => /\ ~load_exists
          => /\ load_tried = <<>> /\ load_df = None
             /\ load_pc \in {"start", "raised"}
             /\ load_pc = "raised" => load_error = "FileNotFoundError"
       /\ load_error = "FileNotFoundError" => ~load_exists /\ load_tried = <<>>
       /\ Len(load_tried) <= Len(encodings)
       /\ \A i \in 1..Len(load_tried) : load_tried[i] = encodings[i]
       /\ \A i \in 1..(Len(load_tried) - 1) : Fails(load_tried[i])
       /\ load_pc = "reading" => \A i \in 1..Len(load_tried) : Fails(load_tried[i])
       /\ load_pc = "returned"
          => /\ load_tried # <<>>
             /\ ~Fails(LastOf(load_tried))
             /\ load_df = ReadCsv(LastOf(load_tried))
             /\ load_error = ""
       /\ load_error = "ValueError"
          => /\ load_pc = "raised"
             /\ load_exists
             /\ load_tried = encodings
             /\ \A i \in 1..Len(encodings) : Fails(encodings[i])
       /\ load_pc = "raised" => load_error \in {"FileNotFoundError", "ValueError"}

C30_Witness ==
    /\ load_pc = "returned"
    /\ load_tried = <<"utf-8", "utf-8-sig", "latin-1">>
    /\ load_outcome["utf-8"] = "UnicodeDecodeError"
    /\ load_outcome["utf-8-sig"] = "Exception"
    /\ load_outcome["cp1252"] = "ok"
    /\ load_df = ReadCsv("latin-1")

====
